---- MODULE Spec2Model ----
(***************************************************************************)
(* ArtigoGenio: the generation pipeline of the article wizard and the      *)
(* generative-API service under it (retry with backoff, model fallback,    *)
(* image quota circuit breaker).                                           *)
(*                                                                         *)
(* The browser runs one event loop: code between two awaits is atomic.     *)
(* An asynchronous task is a stack of frames, one per async function that  *)
(* is executing; a step of the model resumes a task (a network response    *)
(* arrives, a timer fires, the user starts an operation) and runs it to    *)
(* its next await.                                                         *)
(***************************************************************************)
EXTENDS Integers, Sequences, FiniteSets, TLC

VARIABLES
  GLOBAL_IMAGE_QUOTA_EXHAUSTED, \* the image circuit-breaker flag (module state)
  apiKey,                       \* whether getClient() finds an API key
  procs,                        \* task id -> [stack, ret, fin]
  inflight,                     \* network requests awaiting their response
  wiz                           \* the wizard component's state and the article store

vars == <<GLOBAL_IMAGE_QUOTA_EXHAUSTED, apiKey, procs, inflight, wiz>>

\* ------------------------------------------------------------------ bounds

\* Largest `retries` argument tried on a free-standing retryWithBackoff call.
MaxRetries == 3

\* ------------------------------------------------------------ model names

MODEL_PRIMARY_TEXT == "gemini-3-pro-preview"
MODEL_FALLBACK_TEXT == "gemini-3-flash-preview"
MODEL_TOOL_USE == "gemini-3-flash-preview"
MODEL_IMAGE_FLASH == "gemini-2.5-flash-image"
MODEL_IMAGE_PRO == "gemini-3-pro-image-preview"
MODEL_IMAGE_BACKUP == "gemini-2.5-flash-image"

\* ------------------------------------------------------------------ errors

\* An error object: the fields the code inspects.
Err(status, code, message) == [status |-> status, code |-> code, message |-> message]

MSG_429 == "429 RESOURCE_EXHAUSTED: You exceeded your current quota"
MSG_QUOTA == "You exceeded your current quota, please check your plan"
MSG_503 == "503 UNAVAILABLE: The model is overloaded"
MSG_OVERLOADED == "The model is overloaded. Please try again later."
MSG_FETCH == "TypeError: Failed to fetch"
MSG_404 == "404 NOT_FOUND: model is not found"
MSG_400 == "400 INVALID_ARGUMENT"
MSG_EMPTY == "Empty response from AI model"
MSG_COTA_IMG == "Cota da API do Google (Imagens) excedida. Tente mais tarde."
MSG_NO_KEY == "Chave de API ausente. Va em 'Configuracoes' e insira sua API Key para ativar a IA."
MSG_JSON_EMPTY == "A IA retornou uma resposta vazia (sem conteudo)."
MSG_JSON_BAD == "A resposta da IA nao e um JSON valido. Tente novamente."
MSG_NO_INLINE == "A IA nao retornou dados de imagem validos (inlineData missing)."
MSG_EDIT_FAIL == "Falha ao editar imagem (dados invalidos retornados)."
MSG_COTA_SESSION == "Cota de imagem esgotada na sessao."
MSG_VIDEO_NOURL == "Could not find a valid YouTube URL in the response."
MSG_VIDEO_BADURL == "Invalid URL returned by AI."
MSG_VIDEO_BADID == "Invalid YouTube ID extracted."

\* message.includes(part), for the substrings the code looks for.
Includes(message, part) ==
  CASE message = MSG_429 -> part \in {"429", "quota", "RESOURCE_EXHAUSTED"}
    [] message = MSG_QUOTA -> part \in {"quota"}
    [] message = MSG_503 -> part \in {"overloaded"}
    [] message = MSG_OVERLOADED -> part \in {"overloaded"}
    [] message = MSG_FETCH -> part \in {"fetch"}
    [] message = MSG_404 -> part \in {"NOT_FOUND"}
    [] message = MSG_EMPTY -> part \in {"Empty response"}
    [] OTHER -> FALSE

\* The errors a request to the generative API can fail with.
ApiErrors ==
  { Err(429, 429, MSG_429), Err(0, 0, MSG_QUOTA), Err(503, 503, MSG_503),
    Err(0, 0, MSG_OVERLOADED), Err(0, 0, MSG_FETCH), Err(404, 404, MSG_404),
    Err(400, 400, MSG_400) }

Max(a, b) == IF a >= b THEN a ELSE b

\* ------------------------------------------------------------------ frames

NoRet == [k |-> "none"]
Val(v) == [k |-> "val", v |-> v]
Thrown(e) == [k |-> "err", v |-> e]

Frame(fn, pc, v) == [fn |-> fn, pc |-> pc, wait |-> "none", v |-> v]

Top(s) == s.stack[Len(s.stack)]
SetTop(s, fr) == [s EXCEPT !.stack[Len(s.stack)] = fr, !.ret = NoRet]
Goto(s, pc) == SetTop(s, [Top(s) EXCEPT !.pc = pc])
Push(s, fr) == [s EXCEPT !.stack = Append(@, fr), !.ret = NoRet]
Pop(s, ret) ==
  [s EXCEPT !.stack = SubSeq(@, 1, Len(@) - 1), !.ret = ret,
            !.fin = IF Len(s.stack) = 1 THEN Top(s) ELSE @]
Return(s, v) == Pop(s, Val(v))
Throw(s, e) == Pop(s, Thrown(e))
\* setTimeout(resolve, ms): suspend the top frame until the timer fires.
SleepThen(s, pc) == SetTop(s, [Top(s) EXCEPT !.pc = pc, !.wait = "timer"])

\* ---------------------------------------------------------------- requests

\* A request handed to the network.  `purpose' names the prompt, which decides
\* what a response can look like.
Request(model, config, purpose) == [model |-> model, config |-> config, purpose |-> purpose]
NoReq == [model |-> "", config |-> {}, purpose |-> "none"]

\* What the API can answer a request with, by prompt.  Text answers are named
\* by what the callers' parsing tells apart; "" is an empty text.
Responses(purpose) ==
  CASE purpose \in {"image", "edit"} -> {"inlineData", "noInlineData"}
    [] purpose = "video" ->
         {"json:watch", "json:watch:alt", "json:short", "json:noid", "json:foreign", "prose:url",
          "prose", ""}
    [] purpose = "links" -> {"json:links", "json:nolinks", "prose", ""}
    [] purpose = "strategy" -> {"json:query+specs", "json:specs", "json:query", "prose", ""}
    [] purpose = "body" -> {"html", ""}
    [] purpose = "structure" -> {"json", "json:notitle", "prose", ""}
    [] purpose = "metadata" -> {"json", "json:long", "prose", ""}
    [] purpose \in {"wp/v2/media", "wp/v2/media/id", "wp/v2/posts"} -> {"ok", "401", "500"}
    [] OTHER -> {"json", "prose", ""}

AllModels == {MODEL_PRIMARY_TEXT, MODEL_FALLBACK_TEXT, MODEL_IMAGE_FLASH, MODEL_IMAGE_PRO}
NoneSent == [m \in AllModels |-> 0]

\* Frames that own an API client (const ai = getClient()): requests are counted
\* against the nearest one (bookkeeping for the properties, not program state).
ClientFns == {"generateSmartContent", "generateImageFromPrompt", "editGeneratedImage"}

RECURSIVE ClientAt(_, _)
ClientAt(stack, i) ==
  IF i = 0 \/ stack[i].fn \in ClientFns THEN i ELSE ClientAt(stack, i - 1)

\* sent: the requests a client frame has issued, by model; got: the model and
\* the outcome of the latest exchange.
NoteSent(stack, model) ==
  LET i == ClientAt(stack, Len(stack)) IN
  IF i = 0 THEN stack ELSE [stack EXCEPT ![i].v.sent[model] = @ + 1]
NoteGot(stack, model, ret) ==
  LET i == ClientAt(stack, Len(stack)) IN
  IF i = 0 THEN stack ELSE [stack EXCEPT ![i].v.got = [model |-> model, ret |-> ret]]
NoneGot == [model |-> "", ret |-> NoRet]

\* ai.models.generateContent({model, contents, config}): one network exchange.
generateContent(s) ==
  LET fr == Top(s)
      noted == [s EXCEPT !.stack = NoteGot(@, fr.v.model, s.ret)] IN
  IF fr.pc = "send"
  THEN [s EXCEPT !.stack = NoteSent([@ EXCEPT ![Len(@)].pc = "recv", ![Len(@)].wait = "net"],
                                    fr.v.model),
                 !.out = Request(fr.v.model, fr.v.config, fr.v.purpose),
                 !.ret = NoRet]
  ELSE IF s.ret.k = "err" THEN Throw(noted, s.ret.v) ELSE Return(noted, s.ret.v)

GenerateContentFrame(model, config, purpose) ==
  Frame("generateContent", "send", [model |-> model, config |-> config, purpose |-> purpose])

\* runRequest, the closure of generateSmartContent: the request, then the
\* validation of an empty answer.
runRequest(s) ==
  LET fr == Top(s) IN
  IF fr.pc = "call"
  THEN Push(Goto(s, "res"), GenerateContentFrame(fr.v.targetModel, fr.v.targetConfig, fr.v.purpose))
  ELSE IF s.ret.k = "err" THEN Throw(s, s.ret.v)
  ELSE IF s.ret.v = "" THEN Throw(s, Err(0, 0, MSG_EMPTY))
  ELSE Return(s, s.ret.v)

RunRequestFrame(targetModel, targetConfig, purpose) ==
  Frame("runRequest", "call",
        [targetModel |-> targetModel, targetConfig |-> targetConfig, purpose |-> purpose])

\* ------------------------------------------------------- retryWithBackoff

IsQuotaError(error) ==
  \/ error.status = 429
  \/ Includes(error.message, "429")
  \/ Includes(error.message, "quota")
  \/ Includes(error.message, "RESOURCE_EXHAUSTED")

IsNetworkError(error) ==
  \/ error.status = 503
  \/ Includes(error.message, "overloaded")
  \/ Includes(error.message, "fetch")
  \/ Includes(error.message, "Empty response")

\* RetryCatch retrying whatever the error is, as long as retries remain.
RetryCatchAnyError(v, error) ==
  IF IsQuotaError(error) /\ v.isImageRequest
  THEN [do |-> "throw", error |-> Err(0, 0, MSG_COTA_IMG), setFlag |-> TRUE, waitTime |-> 0]
  ELSE IF v.retries > 0
  THEN [do |-> "retry", error |-> error, setFlag |-> FALSE, waitTime |-> v.delay]
  ELSE [do |-> "throw", error |-> error, setFlag |-> FALSE, waitTime |-> 0]

\* RetryCatch failing fast on an image quota error without tripping the breaker.
RetryCatchNoBreaker(v, error) ==
  IF IsQuotaError(error) /\ v.isImageRequest
  THEN [do |-> "throw", error |-> Err(0, 0, MSG_COTA_IMG), setFlag |-> FALSE, waitTime |-> 0]
  ELSE IF v.retries > 0 /\ (IsQuotaError(error) \/ IsNetworkError(error))
  THEN [do |-> "retry", error |-> error, setFlag |-> FALSE, waitTime |-> v.delay]
  ELSE [do |-> "throw", error |-> error, setFlag |-> FALSE, waitTime |-> 0]

\* RetryCatch tripping the breaker on every quota error, image request or not.
RetryCatchAnyRequest(v, error) ==
  IF IsQuotaError(error)
  THEN [do |-> "throw", error |-> Err(0, 0, MSG_COTA_IMG), setFlag |-> TRUE, waitTime |-> 0]
  ELSE IF v.retries > 0 /\ IsNetworkError(error)
  THEN [do |-> "retry", error |-> error, setFlag |-> FALSE, waitTime |-> v.delay]
  ELSE [do |-> "throw", error |-> error, setFlag |-> FALSE, waitTime |-> 0]

\* The catch block of retryWithBackoff: what it does with the error of one
\* attempt, given the frame's parameters.
RetryCatch(v, error) ==
  IF IsQuotaError(error) /\ v.isImageRequest
  THEN [do |-> "throw", error |-> Err(0, 0, MSG_COTA_IMG), setFlag |-> TRUE, waitTime |-> 0]
  ELSE IF v.retries > 0 /\ (IsQuotaError(error) \/ IsNetworkError(error))
  THEN [do |-> "retry", error |-> error, setFlag |-> FALSE,
        waitTime |-> IF IsQuotaError(error) THEN Max(v.delay, 30000) ELSE v.delay]
  ELSE [do |-> "throw", error |-> error, setFlag |-> FALSE, waitTime |-> 0]

\* retryWithBackoff(fn, retries, delay, factor, isImageRequest).  The recursive
\* call after the sleep is the same frame with retries - 1 and delay * factor.
\* calls, last and retries0 are bookkeeping: the invocations of fn so far, the
\* outcome of the latest one, and the retries argument of the outermost call.
retryWithBackoff(s) ==
  LET fr == Top(s) IN
  CASE fr.pc = "try" ->
         Push(SetTop(s, [fr EXCEPT !.pc = "await", !.v.calls = @ + 1]), fr.v.fn)
    [] fr.pc = "await" ->
         IF s.ret.k = "val"
         THEN Return(SetTop(s, [fr EXCEPT !.v.last = Val(s.ret.v)]), s.ret.v)
         ELSE LET c == RetryCatch(fr.v, s.ret.v)
                  seen == [fr EXCEPT !.v.last = s.ret]
                  t == [s EXCEPT !.flag = @ \/ c.setFlag]
              IN IF c.do = "retry"
                 THEN SleepThen(SetTop(t, [seen EXCEPT !.v.waited = c.waitTime]), "sleep")
                 ELSE Throw(SetTop(t, seen), c.error)
    [] fr.pc = "sleep" ->
         SetTop(s, [fr EXCEPT !.pc = "try", !.v.retries = @ - 1,
                              !.v.delay = @ * fr.v.factor])

RetryFrame(fn, retries, delay, factor, isImageRequest) ==
  Frame("retryWithBackoff", "try",
        [fn |-> fn, retries |-> retries, delay |-> delay, factor |-> factor,
         isImageRequest |-> isImageRequest,
         calls |-> 0, last |-> NoRet, retries0 |-> retries, waited |-> 0])

\* ---------------------------------------------------- generateSmartContent

\* getClient(): the browser key, else the build-time key; none is an error.
\* A client made without looking for a key.
getClientWithoutKey(key) == Val("ai")

getClient(key) ==
  IF key.browserKey \/ key.envKey THEN Val("ai") ELSE Thrown(Err(0, 0, MSG_NO_KEY))

IsRecoverableError(error) ==
  \/ error.status = 429 \/ error.code = 429
  \/ error.status = 404 \/ error.code = 404
  \/ Includes(error.message, "429")
  \/ Includes(error.message, "quota")
  \/ Includes(error.message, "RESOURCE_EXHAUSTED")
  \/ Includes(error.message, "NOT_FOUND")
  \/ Includes(error.message, "Empty response")
  \/ error.status = 503

\* A copy of the configuration with nothing removed.
CopiedConfig(config) == config

\* const cleanConfig = { ...config } without thinkingConfig and responseSchema.
CleanConfig(config) == config \ {"thinkingConfig", "responseSchema"}

\* FallsBack without the test that the fallback model is another model.
FallsBackToSameModel(v, error) == IsRecoverableError(error)

\* FallsBack on model-not-found alone.
FallsBackOnNotFound(v, error) ==
  (error.status = 404 \/ error.code = 404) /\ v.model # v.fallbackModel

\* Whether the catch block of generateSmartContent turns to the fallback model.
FallsBack(v, error) == IsRecoverableError(error) /\ v.model # v.fallbackModel

\* FallbackTier requesting the preferred model once more.
FallbackTierOnPreferred(v) ==
  RetryFrame(RunRequestFrame(v.model, CleanConfig(v.config), v.contents), 2, 6000, 2, FALSE)

\* The two retry tiers of generateSmartContent.
PrimaryTier(v) ==
  RetryFrame(RunRequestFrame(v.model, v.config, v.contents), 2, 4000, 2, FALSE)
FallbackTier(v) ==
  RetryFrame(RunRequestFrame(v.fallbackModel, CleanConfig(v.config), v.contents), 2, 6000, 2, FALSE)

\* generateSmartContent(model, contents, config, fallbackModel).  `contents' is
\* the prompt, named by its purpose.  sent, got, tier, primaryError and began
\* (the breaker flag as the call began) are bookkeeping.
generateSmartContent(s) ==
  LET fr == Top(s) IN
  CASE fr.pc = "start" ->
         LET b == SetTop(s, [fr EXCEPT !.v.began = s.flag]) IN
         IF getClient(s.key).k = "err" THEN Throw(b, getClient(s.key).v)
         ELSE Push(Goto(b, "primary"), PrimaryTier(fr.v))
    [] fr.pc = "primary" ->
         IF s.ret.k = "val" THEN Return(s, s.ret.v)
         ELSE IF FallsBack(fr.v, s.ret.v)
         THEN SleepThen(SetTop(s, [fr EXCEPT !.v.tier = "fallback", !.v.primaryError = s.ret]),
                        "fallbackWait")
         ELSE Throw(s, s.ret.v)
    [] fr.pc = "fallbackWait" ->
         Push(Goto(s, "fallback"), FallbackTier(fr.v))
    [] fr.pc = "fallback" ->
         IF s.ret.k = "val" THEN Return(s, s.ret.v) ELSE Throw(s, s.ret.v)

SmartFrame(model, contents, config, fallbackModel) ==
  Frame("generateSmartContent", "start",
        [model |-> model, contents |-> contents, config |-> config,
         fallbackModel |-> fallbackModel,
         sent |-> NoneSent, got |-> NoneGot, tier |-> "primary", primaryError |-> NoRet,
         began |-> FALSE])

\* ------------------------------------------------------------ image calls

PLACEHOLDER_BREAKER == "https://placehold.co/1200x800/1e293b/ffffff?text=..."
PLACEHOLDER_QUOTA == "https://placehold.co/.../EEE/31343C?text=Quota Exceeded - Placeholder"

\* The test of the circuit breaker on entry to an image call, ignored.
BreakerIgnored(flag) == FALSE

\* The test of the circuit breaker on entry to an image call.
BreakerOpen(flag) == flag

\* const config = { imageConfig: {aspectRatio} }, with imageSize for the pro model.
ImageConfig(actualModel) ==
  IF actualModel = MODEL_IMAGE_PRO THEN {"imageConfig", "imageSize"} ELSE {"imageConfig"}

\* The quota test of the catch block of generateImageFromPrompt.
MsgIsQuota(error) ==
  \/ Includes(error.message, "429")
  \/ Includes(error.message, "quota")
  \/ Includes(error.message, "RESOURCE_EXHAUSTED")

\* A catch block that tries the backup model whatever the flag.
ImageCatchWithBackup(s, error) ==
  LET fr == Top(s) IN
  IF MsgIsQuota(error) \/ s.flag
  THEN IF fr.v.model # MODEL_IMAGE_BACKUP
       THEN Push(Goto(s, "backup"),
                 GenerateContentFrame(MODEL_IMAGE_BACKUP, ImageConfig(fr.v.model), "image"))
       ELSE Return(s, PLACEHOLDER_QUOTA)
  ELSE Throw(s, error)

\* The catch block of generateImageFromPrompt.
ImageCatch(s, error) ==
  LET fr == Top(s) IN
  IF MsgIsQuota(error) \/ s.flag
  THEN IF fr.v.model # MODEL_IMAGE_BACKUP /\ ~s.flag
       THEN Push(Goto(s, "backup"),
                 GenerateContentFrame(MODEL_IMAGE_BACKUP, ImageConfig(fr.v.model), "image"))
       ELSE Return(s, PLACEHOLDER_QUOTA)
  ELSE Throw(s, error)

\* generateImageFromPrompt(prompt, aspectRatio, model, resolution).  sent, got
\* and began are bookkeeping.
generateImageFromPrompt(s) ==
  LET fr == Top(s) IN
  CASE fr.pc = "start" ->
         LET b == SetTop(s, [fr EXCEPT !.v.began = s.flag]) IN
         IF BreakerOpen(s.flag) THEN Return(b, PLACEHOLDER_BREAKER)
         ELSE IF getClient(s.key).k = "err" THEN Throw(b, getClient(s.key).v)
         ELSE Push(Goto(b, "response"),
                   RetryFrame(GenerateContentFrame(fr.v.model, ImageConfig(fr.v.model), "image"),
                              1, 4000, 2, TRUE))
    [] fr.pc = "response" ->
         IF s.ret.k = "err" THEN ImageCatch(s, s.ret.v)
         ELSE IF s.ret.v = "inlineData" THEN Return(s, "imageData")
         ELSE ImageCatch(s, Err(0, 0, MSG_NO_INLINE))
    [] fr.pc = "backup" -> Return(s, PLACEHOLDER_QUOTA)

ImageFrame(model) ==
  Frame("generateImageFromPrompt", "start",
        [model |-> model, sent |-> NoneSent, got |-> NoneGot, began |-> FALSE])

\* editGeneratedImage(base64Image, editPrompt).
editGeneratedImage(s) ==
  LET fr == Top(s) IN
  CASE fr.pc = "start" ->
         LET b == SetTop(s, [fr EXCEPT !.v.began = s.flag]) IN
         IF BreakerOpen(s.flag) THEN Throw(b, Err(0, 0, MSG_COTA_SESSION))
         ELSE IF getClient(s.key).k = "err" THEN Throw(b, getClient(s.key).v)
         ELSE Push(Goto(b, "response"),
                   RetryFrame(GenerateContentFrame(MODEL_IMAGE_FLASH, {}, "edit"), 3, 3000, 2, TRUE))
    [] fr.pc = "response" ->
         IF s.ret.k = "err" THEN Throw(s, s.ret.v)
         ELSE IF s.ret.v = "inlineData" THEN Return(s, "editedData")
         ELSE Throw(s, Err(0, 0, MSG_EDIT_FAIL))

EditFrame ==
  Frame("editGeneratedImage", "start", [sent |-> NoneSent, got |-> NoneGot, began |-> FALSE])

\* -------------------------------------------------------- text stages

\* A text is a sequence of tokens: the substrings the code searches for are
\* one token each, and so is the text between them.  '' is the empty sequence.
\* text.indexOf(token) and text.lastIndexOf(token), counted from 1; 0 when
\* the token is absent.
IndexOf(text, token) ==
  IF \E i \in 1..Len(text) : text[i] = token
  THEN CHOOSE i \in 1..Len(text) : text[i] = token /\ \A j \in 1..(i - 1) : text[j] # token
  ELSE 0
LastIndexOf(text, token) ==
  IF \E i \in 1..Len(text) : text[i] = token
  THEN CHOOSE i \in 1..Len(text) : text[i] = token /\ \A j \in (i + 1)..Len(text) : text[j] # token
  ELSE 0

\* The tokens of a model answer: white space, a code fence, the language tag
\* json, the JSON delimiters, a JSON scalar (inside an object, a member), and
\* text that is not JSON.
SPACE == " "
FENCE == "fence"

\* text.trim()
RECURSIVE TrimText(_)
TrimText(text) ==
  IF text # <<>> /\ Head(text) = SPACE THEN TrimText(Tail(text))
  ELSE IF text # <<>> /\ text[Len(text)] = SPACE THEN TrimText(SubSeq(text, 1, Len(text) - 1))
  ELSE text

\* The test !text || !text.trim(), without the trim.
IsBlankUntrimmed(text) == text = <<>>

\* !text || !text.trim()
IsBlank(text) == TrimText(text) = <<>>

\* cleanText.match(/FENCE(?:json)?\s*([\s\S]*?)\s*FENCE/i), FENCE being three
\* backquotes: the content between the first fence, the language tag after it
\* left out, and the next fence.
HasFencedBlock(text) ==
  IndexOf(text, FENCE) # 0
  /\ IndexOf(SubSeq(text, IndexOf(text, FENCE) + 1, Len(text)), FENCE) # 0
FencedContent(text) ==
  LET open == IndexOf(text, FENCE)
      rest == SubSeq(text, open + 1, Len(text))
      content == SubSeq(rest, 1, IndexOf(rest, FENCE) - 1) IN
  IF content # <<>> /\ Head(content) = "json" THEN Tail(content) ELSE content

\* The slice from the first { or [ to the last } or ], when there is one.
BraceSlice(cleanText) ==
  LET firstBrace == IndexOf(cleanText, "{")
      firstBracket == IndexOf(cleanText, "[")
      start == IF firstBrace # 0 /\ firstBracket # 0
               THEN (IF firstBrace < firstBracket THEN firstBrace ELSE firstBracket)
               ELSE IF firstBrace # 0 THEN firstBrace ELSE firstBracket
      lastBrace == LastIndexOf(cleanText, "}")
      lastBracket == LastIndexOf(cleanText, "]")
      end == IF lastBrace # 0 /\ lastBracket # 0 THEN Max(lastBrace, lastBracket)
             ELSE IF lastBrace # 0 THEN lastBrace ELSE lastBracket IN
  IF start # 0 /\ end # 0 /\ end > start THEN SubSeq(cleanText, start, end) ELSE cleanText

\* JSON.parse: white space between tokens is skipped; a value is a scalar, or
\* an object or an array, empty or of one value.
RECURSIVE Unspaced(_)
Unspaced(text) ==
  IF text = <<>> THEN <<>>
  ELSE (IF Head(text) = SPACE THEN <<>> ELSE <<Head(text)>>) \o Unspaced(Tail(text))
RECURSIVE IsJsonValue(_)
IsJsonValue(tokens) ==
  \/ tokens = <<"1">>
  \/ /\ Len(tokens) >= 2
     /\ <<tokens[1], tokens[Len(tokens)]>> \in {<<"{", "}">>, <<"[", "]">>}
     /\ Len(tokens) = 2 \/ IsJsonValue(SubSeq(tokens, 2, Len(tokens) - 1))
JSONparse(text) ==
  IF IsJsonValue(Unspaced(text)) THEN Val(Unspaced(text)) ELSE Thrown("SyntaxError")

\* cleanAndParseJSON(text): the value parsed from the text, or one of its two
\* errors.
cleanAndParseJSON(text) ==
  IF IsBlank(text) THEN Thrown(Err(0, 0, MSG_JSON_EMPTY))
  ELSE LET trimmed == TrimText(text)
           cleanText == IF HasFencedBlock(trimmed) THEN TrimText(FencedContent(trimmed))
                        ELSE trimmed IN
       IF JSONparse(BraceSlice(cleanText)).k = "val" THEN JSONparse(BraceSlice(cleanText))
       ELSE Thrown(Err(0, 0, MSG_JSON_BAD))

\* The answers of the model are named by what the callers tell apart in them.
\* These are the ones whose text is JSON; the link search, which has no
\* response schema, is answered with a fenced block after a sentence.
JsonTexts ==
  {"json", "json:notitle", "json:links", "json:nolinks", "json:query+specs", "json:specs",
   "json:query", "json:watch", "json:watch:alt", "json:short", "json:noid", "json:foreign",
   "json:long"}
TextOf(answer) ==
  CASE answer = "" -> <<>>
    [] answer \in {"json:links", "json:nolinks"} ->
         <<"prose", SPACE, FENCE, "json", SPACE, "[", "1", "]", SPACE, FENCE>>
    [] answer \in JsonTexts -> <<"{", "1", "}">>
    [] OTHER -> <<"prose">>

\* cleanAndParseJSON(response.text): the parsed object is named as the answer.
Parsed(answer) ==
  IF cleanAndParseJSON(TextOf(answer)).k = "val" THEN Val(answer)
  ELSE cleanAndParseJSON(TextOf(answer))

\* await delay(ms)
delay(s) ==
  IF Top(s).pc = "sleep" THEN SleepThen(s, "done") ELSE Return(s, "")

DelayFrame(ms) == Frame("delay", "sleep", [ms |-> ms])

\* analyzeSerp(keyword, language): any failure gives the default analysis.
analyzeSerp(s) ==
  IF Top(s).pc = "call"
  THEN Push(Goto(s, "parse"), SmartFrame(MODEL_TOOL_USE, "serp", {"tools"}, MODEL_FALLBACK_TEXT))
  ELSE IF s.ret.k = "err" \/ Parsed(s.ret.v).k = "err"
  THEN Return(s, "default")
  ELSE Return(s, "analysis")

\* The catch block of generateArticleStructure and of generateMainContent:
\* console.error, then throw error.
StageCatch(error) == Thrown(error)

\* The title of the parsed structure: absent when the JSON has no title field.
TitleOf(structure) == IF structure = "json" THEN "title" ELSE "undefined"

\* generateArticleStructure(topic, keyword, serpData, language)
generateArticleStructure(s) ==
  IF Top(s).pc = "call"
  THEN Push(Goto(s, "parse"),
            SmartFrame(MODEL_FALLBACK_TEXT, "structure", {"responseMimeType", "responseSchema"},
                       MODEL_FALLBACK_TEXT))
  ELSE LET parsed == IF s.ret.k = "err" THEN s.ret ELSE Parsed(s.ret.v) IN
       IF parsed.k = "err" THEN Pop(s, StageCatch(parsed.v))
       ELSE Return(s, [title |-> TitleOf(parsed.v)])

\* HTML text is a sequence of tokens: the substrings the code searches for are
\* one token each, and so is the text between them.  '' is the empty sequence.
NoHtml == <<>>
NL == "\n"
INTERNAL_LINKS == "<div class=\"internal-links-section\">...</div>"

\* The HTML of the body answer, cleaned of fences and page-level tags and
\* trimmed: a heading and a lead paragraph.
HtmlOf(text) == IF text = "html" THEN <<"<h1>", "</h1>", "<p>", "</p>">> ELSE NoHtml

\* A splice that puts the block at the end whatever the body has.
AppendBlock(html, internalLinksBlock) == html \o internalLinksBlock

\* The links block spliced into the body: after the references list, else
\* before </article>, else at the end.
SpliceBlock(html, internalLinksBlock) ==
  LET refIndex == LastIndexOf(html, "</ol>")
      articleEnd == LastIndexOf(html, "</article>") IN
  IF refIndex # 0 /\ \E i \in 1..Len(html) : html[i] = "referencias"
  THEN SubSeq(html, 1, refIndex) \o internalLinksBlock \o SubSeq(html, refIndex + 1, Len(html))
  ELSE IF articleEnd # 0
  THEN SubSeq(html, 1, articleEnd - 1) \o internalLinksBlock
       \o SubSeq(html, articleEnd, Len(html))
  ELSE html \o internalLinksBlock

SpliceLinks(html) == SpliceBlock(html, <<INTERNAL_LINKS>>)

\* A URL is a sequence of tokens: the scheme, the host (the configured domain
\* is one token, whatever stands before it in the host another), the path,
\* and "?" with the query.
SCHEME == "https://"
Paths == {"/", "/a", "/b", "/c", "/d", "/e"}

\* siteUrl.trim().replace(/^https?:\/\//, '') without a slash at its end.
DomainOf(siteUrl) ==
  LET domain == IF siteUrl # <<>> /\ Head(siteUrl) = SCHEME THEN Tail(siteUrl) ELSE siteUrl IN
  IF domain # <<>> /\ domain[Len(domain)] = "/" THEN SubSeq(domain, 1, Len(domain) - 1)
  ELSE domain

\* url.includes(domain), the domain being one token.
UrlIncludes(url, domain) == \E i \in 1..Len(url) : <<url[i]>> = domain

\* url.split('?')[0]
CleanUrl(url) == IF IndexOf(url, "?") = 0 THEN url ELSE SubSeq(url, 1, IndexOf(url, "?") - 1)

\* The forEach over foundLinks: the items whose URL includes the domain, the
\* first one for each clean URL, in the order of arrival.
RECURSIVE UniqueLinks(_, _, _)
UniqueLinks(foundLinks, domain, seen) ==
  IF foundLinks = <<>> THEN <<>>
  ELSE LET item == Head(foundLinks) IN
       IF UrlIncludes(item.url, domain) /\ CleanUrl(item.url) \notin seen
       THEN <<item>> \o UniqueLinks(Tail(foundLinks), domain, seen \cup {CleanUrl(item.url)})
       ELSE UniqueLinks(Tail(foundLinks), domain, seen)

\* The items of the link search: those of the JSON array, or, when the answer
\* does not parse, the URLs found in its text that include the domain.
FoundLinks(parses, urls, domain) ==
  IF parses THEN [i \in 1..Len(urls) |-> [title |-> "Post", url |-> urls[i]]]
  ELSE LET matching == SelectSeq(urls, LAMBDA u : UrlIncludes(u, domain)) IN
       [i \in 1..Len(matching) |-> [title |-> "Veja tambem", url |-> matching[i]]]

\* shuffleArray(allValidLinks).slice(0, 3), for the order the shuffle gives.
SelectedLinks(allValidLinks, order) ==
  LET shuffledLinks == [i \in 1..Len(allValidLinks) |-> allValidLinks[order[i]]] IN
  SubSeq(shuffledLinks, 1, IF Len(shuffledLinks) < 3 THEN Len(shuffledLinks) ELSE 3)

\* The internal-links section of the selected links, '' for none.
LINKS_OPEN == "<div class=\"internal-links-section\"><ul>"
LINKS_CLOSE == "</ul></div>"
RECURSIVE LinkItems(_)
LinkItems(selectedLinks) ==
  IF selectedLinks = <<>> THEN <<>>
  ELSE <<"<li><a href=">> \o Head(selectedLinks).url \o <<Head(selectedLinks).title, "</a></li>">>
       \o LinkItems(Tail(selectedLinks))
InternalLinksBlock(selectedLinks) ==
  IF selectedLinks = <<>> THEN <<>>
  ELSE <<LINKS_OPEN>> \o LinkItems(selectedLinks) \o <<LINKS_CLOSE>>

\* The internal links found in the answer of the link search: none unless the
\* answer lists pages of the site.
LinksBlock(ret) ==
  ret.k = "val" /\ Parsed(ret.v) = Val("json:links")

\* generateMainContent(topic, keyword, structure, serpData, ..., siteUrl, ...):
\* with a site URL, the best-effort search for internal links; then the body,
\* the links block spliced into it.
generateMainContent(s) ==
  LET fr == Top(s)
      body == Push(Goto(s, "html"),
                   SmartFrame(MODEL_PRIMARY_TEXT, "body",
                              {"thinkingConfig", "maxOutputTokens", "tools"}, MODEL_FALLBACK_TEXT))
  IN CASE fr.pc = "call" ->
            IF fr.v.siteUrl
            THEN Push(Goto(s, "links"),
                      SmartFrame(MODEL_FALLBACK_TEXT, "links", {"tools"}, MODEL_FALLBACK_TEXT))
            ELSE body
       [] fr.pc = "links" ->
            Push(SetTop(s, [fr EXCEPT !.pc = "html", !.v.internalLinksBlock = LinksBlock(s.ret)]),
                 SmartFrame(MODEL_PRIMARY_TEXT, "body",
                            {"thinkingConfig", "maxOutputTokens", "tools"}, MODEL_FALLBACK_TEXT))
       [] fr.pc = "html" ->
            IF s.ret.k = "err" THEN Pop(s, StageCatch(s.ret.v))
            ELSE Return(s, IF fr.v.internalLinksBlock THEN SpliceLinks(HtmlOf(s.ret.v))
                           ELSE HtmlOf(s.ret.v))

MainContentFrame(siteUrl) ==
  Frame("generateMainContent", "call", [siteUrl |-> siteUrl, internalLinksBlock |-> FALSE])

\* The fields of a SeoData the model is given a length for are sequences of
\* words; the length of such a text counts the spaces between the words.
RECURSIVE TextLen(_)
TextLen(words) ==
  IF words = <<>> THEN 0
  ELSE Len(Head(words)) + (IF Len(words) > 1 THEN 1 ELSE 0) + TextLen(Tail(words))

KEYWORD == "keyword"
NoSeo ==
  [seoTitle |-> <<>>, metaDescription |-> <<>>, wordpressExcerpt |-> <<>>, slug |-> "",
   targetKeyword |-> ""]

\* The object an answer to the metadata prompt parses to: the fields are the
\* model's, within the lengths the prompt asks for ("json") or not
\* ("json:long": a title of 73 characters, a description without the keyword).
MetadataOf(answer, keyword) ==
  IF answer = "json"
  THEN [seoTitle |-> <<"Guide", "to", keyword>>,
        metaDescription |-> <<"All", "about", keyword, "in", "one", "article">>,
        wordpressExcerpt |-> <<"What", "nobody", "told", "you", "about", keyword>>,
        slug |-> "guide", targetKeyword |-> keyword]
  ELSE [seoTitle |-> <<"Everything", "you", "always", "wanted", "to", "know", "about", keyword,
                       "but", "were", "afraid", "to", "ask">>,
        metaDescription |-> <<"An", "article">>,
        wordpressExcerpt |-> <<"Read", "it">>,
        slug |-> "everything", targetKeyword |-> keyword]

\* keyword.replace(/ /g, '-'), for the keywords of the model.
Hyphenated(keyword) ==
  CASE keyword = " " -> "-"
    [] keyword = "palavra chave" -> "palavra-chave"
    [] OTHER -> keyword

\* The object of the catch block of generateMetadata: no wordpressExcerpt.
MetadataDefaults(keyword) ==
  [seoTitle |-> <<keyword>>, metaDescription |-> <<"Artigo", "sobre", keyword>>,
   wordpressExcerpt |-> <<>>, slug |-> Hyphenated(keyword), targetKeyword |-> keyword]

\* generateMetadata(topic, keyword, htmlContent, language): the parsed answer
\* as it is; any failure gives the defaults derived from the keyword.  failed
\* is bookkeeping.
generateMetadata(s) ==
  IF Top(s).pc = "call"
  THEN Push(Goto(s, "parse"),
            SmartFrame(MODEL_FALLBACK_TEXT, "metadata", {"responseMimeType", "responseSchema"},
                       MODEL_FALLBACK_TEXT))
  ELSE IF s.ret.k = "err" \/ Parsed(s.ret.v).k = "err"
  THEN Return(SetTop(s, [Top(s) EXCEPT !.v.failed = TRUE]), MetadataDefaults(Top(s).v.keyword))
  ELSE Return(s, MetadataOf(Parsed(s.ret.v).v, Top(s).v.keyword))

\* ------------------------------------------------------------ media stage

\* A VideoData without a video: the query alone.
EmptyVideo(query) ==
  [query |-> query, title |-> "", channel |-> "", url |-> "", embedHtml |-> "",
   thumbnailUrl |-> "", caption |-> "", altText |-> ""]
NoVideo == EmptyVideo("")

\* A URL is a sequence of tokens: the host, the path up to the identifier,
\* and what follows it.
YOUTUBE == "https://www.youtube.com/"
YOUTU_BE == "https://youtu.be/"
VIDEO_ID == "dQw4w9WgXcQ"
WatchUrl(id) == <<YOUTUBE, "watch?v=", id>>
ShortUrl(id) == <<YOUTU_BE, id>>
NoUrl == <<>>

\* a || b on strings.
Or(a, b) == IF a # "" THEN a ELSE b

\* The object an answer to the video prompt parses to (cleanAndParseJSON), for
\* the answers that are JSON.  The schema requires title, url and caption;
\* what they hold is the model's.
VideoResult(text) ==
  CASE text = "json:watch" ->
         [title |-> "Title", channel |-> "Channel", url |-> WatchUrl(VIDEO_ID),
          caption |-> "Caption", altText |-> ""]
    [] text = "json:watch:alt" ->
         [title |-> "Title", channel |-> "Channel", url |-> WatchUrl(VIDEO_ID),
          caption |-> "Caption", altText |-> "Alt text"]
    [] text = "json:short" ->
         [title |-> "Another title", channel |-> "", url |-> ShortUrl(VIDEO_ID),
          caption |-> "", altText |-> ""]
    [] text = "json:noid" ->
         [title |-> "Title", channel |-> "Channel", url |-> ShortUrl("abc"),
          caption |-> "Caption", altText |-> ""]
    [] text = "json:foreign" ->
         [title |-> "Title", channel |-> "Channel", url |-> <<"https://example.com/", "video">>,
          caption |-> "Caption", altText |-> ""]

\* The URL the fallback finds in an answer that is not JSON: the first watch
\* or short link in the text.
UrlInText(text) == IF text = "prose:url" THEN WatchUrl(VIDEO_ID) ELSE NoUrl

\* url.includes("youtube.com") || url.includes("youtu.be")
IsYoutubeUrl(url) == \E i \in 1..Len(url) : url[i] \in {YOUTUBE, YOUTU_BE}

\* The match of the identifier pattern: 11 identifier characters after
\* youtube.com/(v/, e/, embed/, ...?v=, shorts/) or after youtu.be/.
NoId == ""

\* An extraction that takes an identifier of any length.
ExtractIdOfAnyLength(url) ==
  IF Len(url) >= 3 /\ url[1] = YOUTUBE /\ url[2] \in {"v/", "e/", "embed/", "watch?v=", "shorts/"}
  THEN url[3]
  ELSE IF Len(url) >= 2 /\ url[1] = YOUTU_BE
  THEN url[2]
  ELSE NoId

ExtractId(url) ==
  IF /\ Len(url) >= 3 /\ url[1] = YOUTUBE
     /\ url[2] \in {"v/", "e/", "embed/", "watch?v=", "shorts/"} /\ Len(url[3]) = 11
  THEN url[3]
  ELSE IF Len(url) >= 2 /\ url[1] = YOUTU_BE /\ Len(url[2]) = 11
  THEN url[2]
  ELSE NoId

\* The markup and the thumbnail address built for a video identifier.
EmbedHtml(videoId, embedTitle) ==
  "<iframe src=\"https://www.youtube-nocookie.com/embed/" \o videoId
  \o "\" title=\"" \o embedTitle \o "\"></iframe>"
ThumbnailUrl(videoId) == "https://img.youtube.com/vi/" \o videoId \o "/maxresdefault.jpg"

\* The second half of findRealYoutubeVideo: from the answer's text to the
\* VideoData, or to the error thrown.
ResolveVideo(query, text) ==
  LET parsed == Parsed(text)
      foundUrl == UrlInText(text)
      result == IF parsed.k = "val" THEN VideoResult(text)
                ELSE [title |-> query, channel |-> "YouTube", url |-> foundUrl,
                      caption |-> "Video selecionado sobre: " \o query,
                      altText |-> "Video explicativo sobre " \o query]
      videoId == ExtractId(result.url) IN
  IF parsed.k = "err" /\ foundUrl = NoUrl THEN Thrown(Err(0, 0, MSG_VIDEO_NOURL))
  ELSE IF result.url = NoUrl \/ ~IsYoutubeUrl(result.url) THEN Thrown(Err(0, 0, MSG_VIDEO_BADURL))
  ELSE IF videoId = NoId THEN Thrown(Err(0, 0, MSG_VIDEO_BADID))
  ELSE Val([query |-> query,
            title |-> Or(result.title, "Video Recomendado"),
            channel |-> Or(result.channel, "YouTube"),
            url |-> result.url,
            embedHtml |-> EmbedHtml(videoId, Or(result.altText, Or(result.title, "Video Player"))),
            thumbnailUrl |-> ThumbnailUrl(videoId),
            caption |-> Or(result.caption, "Assista: " \o result.title),
            altText |-> Or(result.altText, "Video sobre " \o query)])

\* findRealYoutubeVideo(query): the search-grounded lookup, retried as a
\* whole; then the resolution of its answer.
findRealYoutubeVideo(s) ==
  IF Top(s).pc = "call"
  THEN Push(Goto(s, "parse"),
            RetryFrame(SmartFrame(MODEL_TOOL_USE, "video",
                                  {"tools", "responseMimeType", "responseSchema"},
                                  MODEL_FALLBACK_TEXT),
                       3, 2000, 2, FALSE))
  ELSE IF s.ret.k = "err" THEN Throw(s, s.ret.v)
  ELSE Pop(s, ResolveVideo(Top(s).v.query, s.ret.v))

\* generateMediaStrategy(title, keyword, language): the strategy, the video
\* lookup when the strategy has a search query, and the image specs (those of
\* the strategy, else the fallback specs).  Any failure gives the fallback.
generateMediaStrategy(s) ==
  LET fr == Top(s)
      fallback == [videoData |-> EmptyVideo("title"), imageSpecs |-> "fallback"]
  IN CASE fr.pc = "call" ->
            Push(Goto(s, "strategy"),
                 SmartFrame(MODEL_FALLBACK_TEXT, "strategy", {"responseMimeType", "responseSchema"},
                            MODEL_FALLBACK_TEXT))
       [] fr.pc = "strategy" ->
            IF s.ret.k = "err" \/ Parsed(s.ret.v).k = "err"
            THEN Return(s, fallback)
            ELSE LET specs == IF s.ret.v = "json:query" THEN "fallback" ELSE "strategy" IN
                 IF s.ret.v \in {"json:query+specs", "json:query"}
                 THEN Push(SetTop(s, [fr EXCEPT !.pc = "video", !.v.finalSpecs = specs]),
                           Frame("findRealYoutubeVideo", "call", [query |-> "search_query"]))
                 ELSE Return(s, [videoData |-> EmptyVideo("title"),
                                 imageSpecs |-> specs])
       [] fr.pc = "video" ->
            Return(s, [videoData |-> IF s.ret.k = "val" THEN s.ret.v
                                     ELSE EmptyVideo("search_query"),
                       imageSpecs |-> fr.v.finalSpecs])

VIDEO_OPEN == "<div id=\"featured-video-container\""
VIDEO_END == "<!-- video-end -->"

\* html.replace(/<div id="featured-video-container"[\s\S]*?<!-- video-end -->/g, ''):
\* every stretch from the opening of a video block to the nearest end marker
\* after it is removed, left to right.
RECURSIVE StripVideo(_)
StripVideo(html) ==
  IF html = <<>> THEN <<>>
  ELSE IF Head(html) = VIDEO_OPEN /\ IndexOf(Tail(html), VIDEO_END) # 0
  THEN StripVideo(SubSeq(html, IndexOf(Tail(html), VIDEO_END) + 2, Len(html)))
  ELSE <<Head(html)>> \o StripVideo(Tail(html))

\* The template of the video block.  It opens with a line break.
VideoSection(videoData) ==
  <<NL, VIDEO_OPEN, " class=\"video-container my-8\"><h3>Assista: ", videoData.title, "</h3>",
    videoData.embedHtml>>
  \o (IF videoData.caption # "" THEN <<"<p>", videoData.caption, "</p>">> ELSE <<>>)
  \o <<"</div>", VIDEO_END>>

\* An injection that puts the video block after the last </p>.
injectVideoAfterLastParagraph(html, videoData) ==
  IF videoData.embedHtml = "" THEN html
  ELSE LET cleanHtml == StripVideo(html)
           lastCloseIndex == LastIndexOf(cleanHtml, "</p>") IN
       SubSeq(cleanHtml, 1, lastCloseIndex) \o <<NL>> \o VideoSection(videoData)
       \o SubSeq(cleanHtml, lastCloseIndex + 1, Len(cleanHtml))

\* injectVideoIntoHtml(html, videoData): html itself without embed markup;
\* else html stripped of video blocks, with the video block after the first
\* </p>, else after the first </h1>, else in front.
injectVideoIntoHtml(html, videoData) ==
  IF videoData.embedHtml = "" THEN html
  ELSE LET videoSection == VideoSection(videoData)
           cleanHtml == StripVideo(html)
           leadCloseIndex == IndexOf(cleanHtml, "</p>")
           h1CloseIndex == IndexOf(cleanHtml, "</h1>") IN
       IF leadCloseIndex # 0
       THEN SubSeq(cleanHtml, 1, leadCloseIndex) \o <<NL>> \o videoSection
            \o SubSeq(cleanHtml, leadCloseIndex + 1, Len(cleanHtml))
       ELSE IF h1CloseIndex # 0
       THEN SubSeq(cleanHtml, 1, h1CloseIndex) \o <<NL>> \o videoSection
            \o SubSeq(cleanHtml, h1CloseIndex + 1, Len(cleanHtml))
       ELSE videoSection \o <<NL>> \o cleanHtml

\* html.trim(): without the white space at either end.
RECURSIVE Trim(_)
Trim(html) ==
  IF html # <<>> /\ Head(html) = NL THEN Trim(Tail(html))
  ELSE IF html # <<>> /\ html[Len(html)] = NL THEN Trim(SubSeq(html, 1, Len(html) - 1))
  ELSE html

\* ---------------------------------------------------------------- wizard

NoSchema == [author |-> "", headline |-> <<>>, imageUrl |-> "", datePublished |-> 0,
             dateModified |-> 0]
NoPost ==
  [title |-> "", content |-> NoHtml, status |-> "", slug |-> "", excerpt |-> <<>>,
   meta |-> [yoast_wpseo_title |-> <<>>, yoast_wpseo_metadesc |-> <<>>]]

\* The article of a new wizard: the request fields and status 'draft'.
NewArticle ==
  [status |-> "draft", title |-> "", htmlContent |-> NoHtml, seoData |-> NoSeo,
   serpAnalysis |-> "", videoData |-> NoVideo, imageSpecs |-> "", heroUrl |-> "",
   schemaJsonLd |-> NoSchema, wordpressPostJson |-> NoPost]

\* The author of the wizard, or none; the reading of the clock taken by the
\* one generateTechnicalSeo call of a handleGenerate run.
NoAuthor == ""
currentAuthor == "Author"
FirstReading == 1

\* generateTechnicalSeo(article, author): the schema graph and the WordPress
\* post payload, from the article's fields, the author's name and now, what
\* new Date() reads when the call is made.
generateTechnicalSeo(article, author, now) ==
  [schemaJsonLd |->
     [author |-> IF author = NoAuthor THEN "Redacao" ELSE author,
      headline |-> article.seoData.seoTitle,
      imageUrl |-> IF article.heroUrl \in {PLACEHOLDER_BREAKER, PLACEHOLDER_QUOTA}
                   THEN article.heroUrl ELSE "default-image.jpg",
      datePublished |-> now,
      dateModified |-> now],
   wordpressPostJson |->
     [title |-> article.title, content |-> article.htmlContent, status |-> "draft",
      slug |-> article.seoData.slug, excerpt |-> article.seoData.metaDescription,
      meta |-> [yoast_wpseo_title |-> article.seoData.seoTitle,
                yoast_wpseo_metadesc |-> article.seoData.metaDescription]]]

\* saveArticle(article): the article replaces the stored version with its id,
\* or is added; the collection is written back.
saveArticle(stored, article) == <<article>>

NO_ERROR == "null"
MSG_FILL == "Por favor, preencha o topico e a palavra-chave."
MSG_FRIENDLY_QUOTA ==
  "Limite de cota excedido (Erro 429). Aguarde alguns instantes ou verifique sua API Key."

\* parseErrorMessage(error): the message shown for a failed run.
parseErrorMessage(error) ==
  LET msg == IF error.message = "" THEN "Erro desconhecido" ELSE error.message IN
  IF Includes(msg, "429") \/ Includes(msg, "quota") \/ Includes(msg, "RESOURCE_EXHAUSTED")
  THEN MSG_FRIENDLY_QUOTA
  ELSE msg

\* --------------------------------------------------------- handleGenerate

\* The order of the awaited stages in the try block of handleGenerate, with
\* structure and body swapped.
NextStageBodyFirst(stage) ==
  CASE stage = "serp" -> "body"
    [] stage = "body" -> "structure"
    [] stage = "structure" -> "media"
    [] stage = "media" -> "hero"
    [] stage = "hero" -> "metadata"

\* The order of the awaited stages in the try block of handleGenerate.
NextStage(stage) ==
  CASE stage = "serp" -> "structure"
    [] stage = "structure" -> "body"
    [] stage = "body" -> "media"
    [] stage = "media" -> "hero"
    [] stage = "hero" -> "metadata"

\* await delay(...) after a stage: throttling.
Throttle(stage) == IF stage \in {"structure", "body"} THEN 3000 ELSE 2000

\* The call a stage of handleGenerate awaits.
StageFrame(stage, v) ==
  CASE stage = "serp" -> Frame("analyzeSerp", "call", [keyword |-> "targetKeyword"])
    [] stage = "structure" -> Frame("generateArticleStructure", "call", [topic |-> "topic"])
    [] stage = "body" -> MainContentFrame(v.siteUrl)
    [] stage = "media" -> Frame("generateMediaStrategy", "call", [finalSpecs |-> ""])
    [] stage = "hero" -> ImageFrame(MODEL_IMAGE_FLASH)
    [] stage = "metadata" ->
         Frame("generateMetadata", "call",
               [topic |-> "topic", keyword |-> KEYWORD, failed |-> FALSE])

\* A stage starts: stages is bookkeeping, the stages started so far.
StartStage(s, stage) ==
  LET fr == Top(s) IN
  Push(SetTop(s, [fr EXCEPT !.pc = "await", !.v.stage = stage, !.v.stages = Append(@, stage)]),
       StageFrame(stage, fr.v))

\* GenerateCatch leaving the wizard on the progress screen.
GenerateCatchStaysOnProgress(s, error) ==
  Return([SetTop(s, [Top(s) EXCEPT !.v.outcome = "aborted", !.v.threw = Top(s).v.stage])
            EXCEPT !.wiz.error = parseErrorMessage(error),
                   !.wiz.isGenerating = FALSE],
         "")

\* A catch block without the finally block after it.
GenerateCatchWithoutFinally(s, error) ==
  Return([SetTop(s, [Top(s) EXCEPT !.v.outcome = "aborted", !.v.threw = Top(s).v.stage])
            EXCEPT !.wiz.error = parseErrorMessage(error),
                   !.wiz.currentStep = 1],
         "")

\* The catch and finally blocks of handleGenerate.
GenerateCatch(s, error) ==
  LET fr == Top(s) IN
  Return([SetTop(s, [fr EXCEPT !.v.outcome = "aborted", !.v.threw = fr.v.stage])
            EXCEPT !.wiz.error = parseErrorMessage(error),
                   !.wiz.currentStep = 1,
                   !.wiz.isGenerating = FALSE],
         "")

\* The end of the try block: video injection, technical SEO, the completed
\* article, its persistence, the review timer; then the finally block.
CompletedArticle(article, serpData, structure, htmlBody, mediaData, heroUrl, seoData) ==
  LET tempArticle == [article EXCEPT
                        !.title = structure.title,
                        !.htmlContent = Trim(injectVideoIntoHtml(htmlBody, mediaData.videoData)),
                        !.seoData = seoData,
                        !.videoData = mediaData.videoData,
                        !.imageSpecs = mediaData.imageSpecs,
                        !.heroUrl = heroUrl]
      techSeo == generateTechnicalSeo(tempArticle, currentAuthor, FirstReading)
  IN [tempArticle EXCEPT
        !.serpAnalysis = serpData,
        !.schemaJsonLd = techSeo.schemaJsonLd,
        !.wordpressPostJson = techSeo.wordpressPostJson,
        !.status = "completed"]

Assemble(s, seoData) ==
  LET fr == Top(s)
      v == fr.v
      completedArticle == CompletedArticle(s.wiz.article, v.serpData, v.structure, v.htmlBody,
                                           v.mediaData, v.heroUrl, seoData)
  IN Return([SetTop(s, [fr EXCEPT !.v.outcome = "completed",
                                  !.v.stages = @ \o <<"assembly", "persist">>,
                                  !.v.saves = @ + 1])
               EXCEPT !.wiz.article = completedArticle,
                      !.wiz.stored = saveArticle(@, completedArticle),
                      !.wiz.reviewTimer = TRUE,
                      !.wiz.isGenerating = FALSE],
            "")

\* handleGenerate: the guard, then the stages in order, each awaited, with
\* the throttling delays between them.  stage, stages, saves, stored0, threw
\* and outcome are bookkeeping.
handleGenerate(s) ==
  LET fr == Top(s)
      v == fr.v
  IN CASE fr.pc = "start" ->
            IF ~v.filled
            THEN Return([SetTop(s, [fr EXCEPT !.v.outcome = "rejected"])
                           EXCEPT !.wiz.error = MSG_FILL], "")
            ELSE StartStage([s EXCEPT !.wiz.isGenerating = TRUE,
                                      !.wiz.error = NO_ERROR,
                                      !.wiz.currentStep = 2],
                            "serp")
       [] fr.pc = "await" ->
            IF v.stage = "hero"
            THEN Push(SetTop(s, [fr EXCEPT
                                   !.pc = "throttle",
                                   !.v.heroUrl =
                                      IF s.ret.k = "err" THEN ""
                                      ELSE IF s.ret.v \in {PLACEHOLDER_BREAKER, PLACEHOLDER_QUOTA}
                                      THEN s.ret.v
                                      ELSE "data:image/jpeg;base64,imageData"]),
                      DelayFrame(Throttle(v.stage)))
            ELSE IF s.ret.k = "err" THEN GenerateCatch(s, s.ret.v)
            ELSE IF v.stage = "metadata" THEN Assemble(s, s.ret.v)
            ELSE Push(SetTop(s, [fr EXCEPT
                                   !.pc = "throttle",
                                   !.v.serpData = IF v.stage = "serp" THEN s.ret.v ELSE @,
                                   !.v.structure = IF v.stage = "structure" THEN s.ret.v ELSE @,
                                   !.v.htmlBody = IF v.stage = "body" THEN s.ret.v ELSE @,
                                   !.v.mediaData = IF v.stage = "media" THEN s.ret.v ELSE @]),
                      DelayFrame(Throttle(v.stage)))
       [] fr.pc = "throttle" ->
            IF NextStage(v.stage) = "hero" /\ v.mediaData.imageSpecs = ""
            THEN Push(SetTop(s, [fr EXCEPT !.v.stage = "hero"]), DelayFrame(Throttle("hero")))
            ELSE StartStage(s, NextStage(v.stage))

GenerateFrame(filled, siteUrl, stored) ==
  Frame("handleGenerate", "start",
        [filled |-> filled, siteUrl |-> siteUrl,
         serpData |-> "", structure |-> [title |-> ""], htmlBody |-> NoHtml,
         mediaData |-> [videoData |-> NoVideo, imageSpecs |-> ""], heroUrl |-> "",
         stage |-> "", stages |-> <<>>, saves |-> 0, stored0 |-> stored,
         threw |-> "", outcome |-> ""])

\* ------------------------------------------------- publishToWordPress

MSG_WP_CONFIG == "Configuracao do WordPress incompleta. Va em Configuracoes > WordPress."
MSG_WP_PERMISSION == "Erro de Permissao: Verifique seu usuario e Senha de Aplicativo."
MSG_WP_CONNECTION ==
  "Erro de Conexao: Verifique se a URL do site esta correta e se o site permite conexoes externas (CORS)."
MSG_WP_HTTP == "Erro HTTP: 500"

\* fetch(url, {method: 'POST', headers, body}): one HTTP exchange with the
\* WordPress site; the request is named by the path it posts to.
HttpRequest(path, body) == [model |-> "", config |-> {}, purpose |-> path, body |-> body]

fetch(s) ==
  LET fr == Top(s) IN
  IF fr.pc = "send"
  THEN [s EXCEPT !.stack = [@ EXCEPT ![Len(@)].pc = "recv", ![Len(@)].wait = "net"],
                 !.out = HttpRequest(fr.v.path, fr.v.body),
                 !.ret = NoRet]
  ELSE IF s.ret.k = "err" THEN Throw(s, s.ret.v) ELSE Return(s, s.ret.v)

FetchFrame(path, body) == Frame("fetch", "send", [path |-> path, body |-> body])

\* !config.endpoint || !config.username || !config.applicationPassword
ConfigIncomplete(config) ==
  ~config.endpoint \/ ~config.username \/ ~config.applicationPassword

IsDataUrl(url) == url \in {"data:image/jpeg;base64,imageData", "data:image/jpeg;base64,editedData"}

\* A body that carries the status of the article.
PostDataWithStatus(article, featuredMediaId) ==
  [title |-> article.title, content |-> article.htmlContent, status |-> article.status,
   slug |-> article.seoData.slug, excerpt |-> article.seoData.metaDescription,
   featured_media |-> featuredMediaId]

\* const postData = {...}: the body of the post-creation request.
PostData(article, featuredMediaId) ==
  [title |-> article.title, content |-> article.htmlContent, status |-> "draft",
   slug |-> article.seoData.slug, excerpt |-> article.seoData.metaDescription,
   featured_media |-> featuredMediaId]

\* The catch block of publishToWordPress.
PublishCatch(s, error) ==
  IF error.message = MSG_FETCH THEN Throw(s, Err(0, 0, MSG_WP_CONNECTION))
  ELSE Throw(s, Err(0, 0, error.message))

\* publishToWordPress(article, config): the check of the configuration; the
\* upload of a hero image held as a data URL and the update of its alt text,
\* whose failures are ignored; the creation of the post.
publishToWordPress(s) ==
  LET fr == Top(s)
      article == fr.v.article
      post(t, featuredMediaId) ==
        Push(SetTop(t, [Top(t) EXCEPT !.pc = "post"]),
             FetchFrame("wp/v2/posts", PostData(article, featuredMediaId)))
  IN
  CASE fr.pc = "start" ->
         IF ConfigIncomplete(fr.v.config) THEN Throw(s, Err(0, 0, MSG_WP_CONFIG))
         ELSE IF article.imageSpecs # "" /\ IsDataUrl(article.heroUrl)
         THEN Push(Goto(s, "media"), FetchFrame("wp/v2/media", article.heroUrl))
         ELSE post(s, 0)
    [] fr.pc = "media" ->
         IF s.ret.k = "val" /\ s.ret.v = "ok"
         THEN Push(Goto(s, "alt"), FetchFrame("wp/v2/media/id", "alt_text"))
         ELSE post(s, 0)
    [] fr.pc = "alt" -> post(s, 1)
    [] fr.pc = "post" ->
         IF s.ret.k = "err" THEN PublishCatch(s, s.ret.v)
         ELSE IF s.ret.v = "ok" THEN Return(s, [id |-> 1, link |-> "link"])
         ELSE IF s.ret.v = "401" THEN PublishCatch(s, Err(401, 401, MSG_WP_PERMISSION))
         ELSE PublishCatch(s, Err(500, 500, MSG_WP_HTTP))

\* --------------------------------------------------------- the review step

\* handlePublishToWordPress: article is the one of the render the click
\* happened in.  threw is bookkeeping.
handlePublishToWordPress(s) ==
  LET fr == Top(s)
      article == fr.v.article
      published == [article EXCEPT !.status = "published"] IN
  IF fr.pc = "start"
  THEN Push([Goto(s, "result") EXCEPT !.wiz.error = NO_ERROR],
            Frame("publishToWordPress", "start",
                  [article |-> article, config |-> s.wiz.settings.wordpress]))
  ELSE IF s.ret.k = "err"
  THEN Return([SetTop(s, [fr EXCEPT !.v.threw = s.ret]) EXCEPT
                 !.wiz.error = "Erro ao publicar no WordPress: " \o s.ret.v.message], "")
  ELSE Return([s EXCEPT !.wiz.article = published,
                        !.wiz.stored = saveArticle(@, published)], "")

\* handleSearchVideo: the query typed for the video, else the title; the
\* lookup; the video block put into the article's HTML.
handleSearchVideo(s) ==
  LET fr == Top(s)
      article == fr.v.article
      query == Or(article.videoData.query, article.title) IN
  IF fr.pc = "start"
  THEN IF query = "" THEN Return(s, "")
       ELSE Push(Goto(s, "result"), Frame("findRealYoutubeVideo", "call", [query |-> query]))
  ELSE IF s.ret.k = "err"
  THEN Return(SetTop(s, [fr EXCEPT !.v.threw = s.ret]), "")
  ELSE LET videoResult == s.ret.v
           updatedArticle ==
             [article EXCEPT
                !.videoData = videoResult,
                !.htmlContent = injectVideoIntoHtml(article.htmlContent, videoResult)] IN
       Return([SetTop(s, [fr EXCEPT !.v.found = s.ret]) EXCEPT
                 !.wiz.article = updatedArticle,
                 !.wiz.stored = saveArticle(@, updatedArticle)], "")

\* handleGenerateImage(index, prompt), for the hero image, with the default
\* image model.
handleGenerateImage(s) ==
  LET fr == Top(s)
      article == fr.v.article IN
  IF fr.pc = "start"
  THEN Push(Goto(s, "result"), ImageFrame(MODEL_IMAGE_FLASH))
  ELSE IF s.ret.k = "err"
  THEN Return(SetTop(s, [fr EXCEPT !.v.threw = s.ret]), "")
  ELSE LET dataUrl == IF s.ret.v \in {PLACEHOLDER_BREAKER, PLACEHOLDER_QUOTA} THEN s.ret.v
                      ELSE "data:image/jpeg;base64," \o s.ret.v
           updated == [article EXCEPT !.heroUrl = dataUrl] IN
       Return([s EXCEPT !.wiz.article = updated,
                        !.wiz.stored = saveArticle(@, updated)], "")

\* handleEditImageSubmit, for the hero image, with a prompt typed.
handleEditImageSubmit(s) ==
  LET fr == Top(s)
      article == fr.v.article IN
  IF fr.pc = "start"
  THEN Push(Goto(s, "result"), EditFrame)
  ELSE IF s.ret.k = "err"
  THEN Return(SetTop(s, [fr EXCEPT !.v.threw = s.ret]), "")
  ELSE LET updated == [article EXCEPT !.heroUrl = "data:image/jpeg;base64," \o s.ret.v] IN
       Return([s EXCEPT !.wiz.article = updated,
                        !.wiz.stored = saveArticle(@, updated)], "")

HandlerFrame(fn, article) ==
  Frame(fn, "start", [article |-> article, threw |-> NoRet, found |-> NoRet])

\* ------------------------------------------------------------- event loop

\* One step of the frame on top of the stack.
Step(s) ==
  LET fn == Top(s).fn IN
  CASE fn = "generateContent" -> generateContent(s)
    [] fn = "runRequest" -> runRequest(s)
    [] fn = "retryWithBackoff" -> retryWithBackoff(s)
    [] fn = "generateSmartContent" -> generateSmartContent(s)
    [] fn = "generateImageFromPrompt" -> generateImageFromPrompt(s)
    [] fn = "editGeneratedImage" -> editGeneratedImage(s)
    [] fn = "delay" -> delay(s)
    [] fn = "analyzeSerp" -> analyzeSerp(s)
    [] fn = "generateArticleStructure" -> generateArticleStructure(s)
    [] fn = "generateMainContent" -> generateMainContent(s)
    [] fn = "generateMetadata" -> generateMetadata(s)
    [] fn = "findRealYoutubeVideo" -> findRealYoutubeVideo(s)
    [] fn = "generateMediaStrategy" -> generateMediaStrategy(s)
    [] fn = "handleGenerate" -> handleGenerate(s)
    [] fn = "fetch" -> fetch(s)
    [] fn = "publishToWordPress" -> publishToWordPress(s)
    [] fn = "handlePublishToWordPress" -> handlePublishToWordPress(s)
    [] fn = "handleSearchVideo" -> handleSearchVideo(s)
    [] fn = "handleGenerateImage" -> handleGenerateImage(s)
    [] fn = "handleEditImageSubmit" -> handleEditImageSubmit(s)

\* A task is suspended at an await on the network or on a timer, or has ended.
Suspended(s) == Len(s.stack) = 0 \/ Top(s).wait # "none"

\* Run a task to its next await.
RECURSIVE Run(_)
Run(s) == IF Suspended(s) THEN s ELSE Run(Step(s))

Idle == [stack |-> <<>>, ret |-> NoRet, fin |-> Frame("none", "", [sent |-> NoneSent])]

\* The task p with the shared state it can read and write.
View(p) ==
  [stack |-> procs[p].stack, ret |-> procs[p].ret, fin |-> procs[p].fin,
   flag |-> GLOBAL_IMAGE_QUOTA_EXHAUSTED, key |-> apiKey, wiz |-> wiz, out |-> NoReq]

\* Task p moves from s0 to its next await; what it wrote is committed, and the
\* request it issued joins those still in flight (rest).
Commit(p, s0, rest) ==
  \E s \in {Run(s0)} :
    /\ procs' = [procs EXCEPT ![p] = [stack |-> s.stack, ret |-> s.ret, fin |-> s.fin]]
    /\ GLOBAL_IMAGE_QUOTA_EXHAUSTED' = s.flag
    /\ wiz' = s.wiz
    /\ inflight' = IF s.out = NoReq THEN rest ELSE rest \cup {[proc |-> p, req |-> s.out]}
    /\ UNCHANGED apiKey

Waiting(p, on) == Len(procs[p].stack) > 0 /\ procs[p].stack[Len(procs[p].stack)].wait = on
Resumed(p, ret) ==
  [View(p) EXCEPT !.stack[Len(procs[p].stack)].wait = "none", !.ret = ret]
Called(p, fr) == [View(p) EXCEPT !.stack = <<fr>>, !.ret = NoRet, !.fin = Idle.fin]

\* The network answers a request in flight.
Respond(p) ==
  \E m \in inflight :
    /\ m.proc = p
    /\ \E r \in Responses(m.req.purpose) : Commit(p, Resumed(p, Val(r)), inflight \ {m})

\* A request in flight fails with one of the errors.
FailWith(p, errors) ==
  \E m \in inflight :
    /\ m.proc = p
    /\ \E e \in errors : Commit(p, Resumed(p, Thrown(e)), inflight \ {m})

\* A request in flight fails.
Fail(p) == FailWith(p, ApiErrors)

\* A setTimeout of task p fires.
Timer(p) ==
  /\ Waiting(p, "timer")
  /\ Commit(p, Resumed(p, NoRet), inflight)

Ended(p) == Len(procs[p].stack) = 0 /\ procs[p].fin.fn # "none"

NoWizard == [on |-> FALSE]
Keys == {[browserKey |-> TRUE, envKey |-> FALSE], [browserKey |-> FALSE, envKey |-> TRUE],
         [browserKey |-> FALSE, envKey |-> FALSE]}

\* --------------------------------------------- retryWithBackoff on its own

\* A caller invokes retryWithBackoff on a text request (runRequest) or on an
\* image request (generateContent), with any retry budget and either flag.
StartRetry(p) ==
  /\ Len(procs[p].stack) = 0
  /\ \E retries \in 0..MaxRetries, isImageRequest \in BOOLEAN,
        fn \in {RunRequestFrame(MODEL_PRIMARY_TEXT, {}, "text"),
                GenerateContentFrame(MODEL_IMAGE_FLASH, {"imageConfig"}, "image")} :
       Commit(p, Called(p, RetryFrame(fn, retries, 2000, 2, isImageRequest)), inflight)

InitRetry ==
  /\ GLOBAL_IMAGE_QUOTA_EXHAUSTED = FALSE
  /\ apiKey = [browserKey |-> TRUE, envKey |-> FALSE]
  /\ procs = [p \in {"caller"} |-> Idle]
  /\ inflight = {}
  /\ wiz = NoWizard

NextRetry ==
  \/ \E p \in DOMAIN procs : StartRetry(p)
  \/ \E p \in DOMAIN procs : Respond(p)
  \/ \E p \in DOMAIN procs : Fail(p)
  \/ \E p \in DOMAIN procs : Timer(p)

SpecRetry == InitRetry /\ [][NextRetry]_vars

\* The error classes C7 calls retryable, and those among them that are quota.
QuotaClassErrors == {Err(429, 429, MSG_429), Err(0, 0, MSG_QUOTA)}
RetryableClassErrors ==
  QuotaClassErrors \cup {Err(503, 503, MSG_503), Err(0, 0, MSG_OVERLOADED), Err(0, 0, MSG_FETCH),
                          Err(0, 0, MSG_EMPTY)}

\* What C7 asks of one retryWithBackoff call, live or ended with `ret':
\* an attempt follows only a retryable failure; a failure ends the call with the
\* latest error itself, after retries + 1 invocations when it was retryable; a
\* success ends the call with the attempt's result.
RetryContract(p, quotaRetried) ==
  LET live == Len(procs[p].stack) > 0
      fr == IF live THEN procs[p].stack[1] ELSE procs[p].fin
      v == fr.v
      ret == procs[p].ret
      again == live /\ (fr.wait = "timer" \/ v.calls >= 2) IN
  fr.fn = "retryWithBackoff" =>
    /\ again => v.last.k = "err" /\ v.last.v \in RetryableClassErrors
    /\ again => v.calls <= v.retries0 + 1
    /\ ~live /\ ret.k = "err" =>
         /\ v.last.k = "err"
         /\ quotaRetried \/ ~(v.isImageRequest /\ v.last.v \in QuotaClassErrors) =>
              /\ ret.v = v.last.v
              /\ v.last.v \in RetryableClassErrors => v.calls = v.retries0 + 1
    /\ ~live /\ ret.k = "val" => v.last = ret

\* C7 (as claimed): retryWithBackoff invokes fn exactly retries + 1 times when
\* every attempt fails with a retryable error (quota, unavailable, network,
\* empty response) and then propagates the last error unchanged; a
\* non-retryable error is propagated unchanged without a further attempt; a
\* success is returned without a further attempt.
C7_RetryContractAsClaimed == \A p \in DOMAIN procs : RetryContract(p, TRUE)

\* C7 (amended): the same, except that a quota error on an image request
\* (isImageRequest) is not retried and is replaced: the call sets the circuit
\* breaker and throws a new quota error in place of the one fn failed with.
C7_RetryContract ==
  \A p \in DOMAIN procs :
    /\ RetryContract(p, FALSE)
    /\ LET fr == IF Len(procs[p].stack) > 0 THEN procs[p].stack[1] ELSE procs[p].fin IN
       /\ fr.fn = "retryWithBackoff"
       /\ fr.v.isImageRequest
       /\ fr.v.last.k = "err"
       /\ fr.v.last.v \in QuotaClassErrors
       => /\ Ended(p)
          /\ procs[p].ret = Thrown(Err(0, 0, MSG_COTA_IMG))
          /\ GLOBAL_IMAGE_QUOTA_EXHAUSTED

\* A call with a budget of at least two retries used it up on retryable errors
\* and failed with the last of them.
C7_Witness ==
  \E p \in DOMAIN procs :
    /\ Ended(p)
    /\ procs[p].fin.fn = "retryWithBackoff"
    /\ procs[p].fin.v.retries0 >= 2
    /\ procs[p].fin.v.calls = procs[p].fin.v.retries0 + 1
    /\ procs[p].ret = Thrown(Err(503, 503, MSG_503))

\* ----------------------------------------- generateSmartContent on its own

\* The configurations the text stages pass: a thinking budget, or a response
\* schema for structured output.
TextConfigs == {{"thinkingConfig", "maxOutputTokens"}, {"responseMimeType", "responseSchema"}}

\* A caller invokes generateSmartContent with the primary model (the fallback
\* differs) or with the fallback model itself (no fallback tier).
StartSmart(p) ==
  /\ Len(procs[p].stack) = 0
  /\ \E model \in {MODEL_PRIMARY_TEXT, MODEL_FALLBACK_TEXT}, config \in TextConfigs :
       Commit(p, Called(p, SmartFrame(model, "text", config, MODEL_FALLBACK_TEXT)), inflight)

InitSmart ==
  /\ GLOBAL_IMAGE_QUOTA_EXHAUSTED \in BOOLEAN
  /\ apiKey \in Keys
  /\ procs = [p \in {"caller"} |-> Idle]
  /\ inflight = {}
  /\ wiz = NoWizard

NextSmart ==
  \/ \E p \in DOMAIN procs : StartSmart(p)
  \/ \E p \in DOMAIN procs : Respond(p)
  \/ \E p \in DOMAIN procs : Fail(p)
  \/ \E p \in DOMAIN procs : Timer(p)

SpecSmart == InitSmart /\ [][NextSmart]_vars

\* The outermost frame of task p, live or as it ended.
Outer(p) == IF Len(procs[p].stack) > 0 THEN procs[p].stack[1] ELSE procs[p].fin

\* The tasks that are, or were last, a generateSmartContent call.
SmartCalls == {p \in DOMAIN procs : Outer(p).fn = "generateSmartContent"}

\* The failure classes the fallback dispatcher is said to recover from.
RecoverableClassErrors ==
  QuotaClassErrors \cup {Err(503, 503, MSG_503), Err(404, 404, MSG_404), Err(0, 0, MSG_EMPTY)}

\* The requests one tier makes at most: the first attempt and two retries.
TierAttempts == 3

\* C8: in a generateSmartContent call whose model differs from fallbackModel
\* and whose preferred tier ended on a quota error, the preferred tier has used
\* its whole budget (three requests) before the fallback is tried, the
\* preferred model is not requested again once the fallback has started, and a
\* success of the fallback is what the call returns.
C8_FallbackAfterQuota ==
  \A p \in SmartCalls :
    LET v == Outer(p).v IN
    /\ v.model # v.fallbackModel
    /\ v.tier = "fallback"
    /\ v.primaryError.v \in QuotaClassErrors
    => /\ v.sent[v.model] = TierAttempts
       /\ \A m \in inflight : m.proc = p => m.req.model = v.fallbackModel
       /\ Ended(p) /\ procs[p].ret.k = "val" =>
            /\ v.got = [model |-> v.fallbackModel, ret |-> procs[p].ret]
            /\ procs[p].ret.v # ""

\* The preferred model failed three times on quota and the fallback answered.
C8_Witness ==
  \E p \in SmartCalls :
    /\ Ended(p)
    /\ Outer(p).v.model # Outer(p).v.fallbackModel
    /\ Outer(p).v.tier = "fallback"
    /\ Outer(p).v.primaryError = Thrown(Err(429, 429, MSG_429))
    /\ Outer(p).v.sent[Outer(p).v.fallbackModel] >= 1
    /\ procs[p].ret.k = "val"

\* C9: generateSmartContent has two tiers.  The fallback model is requested
\* only after the preferred tier failed with a recoverable error and only when
\* it is another model; no third model is requested; each tier makes at most
\* three requests; when the fallback tier fails the call fails with that error.
C9_TwoTiers ==
  \A p \in SmartCalls :
    LET v == Outer(p).v
        ret == procs[p].ret IN
    /\ \A m \in AllModels \ {v.model, v.fallbackModel} : v.sent[m] = 0
    /\ v.sent[v.model] <= TierAttempts
    /\ v.sent[v.fallbackModel] <= TierAttempts
    /\ v.tier = "fallback" =>
         /\ v.model # v.fallbackModel
         /\ v.primaryError.k = "err"
         /\ v.primaryError.v \in RecoverableClassErrors
    /\ v.tier = "primary" /\ v.model # v.fallbackModel => v.sent[v.fallbackModel] = 0
    /\ Ended(p) /\ v.tier = "fallback" /\ ret.k = "err" =>
         /\ v.got.model = v.fallbackModel
         /\ \/ v.got.ret = ret
            \/ v.got.ret = Val("") /\ ret = Thrown(Err(0, 0, MSG_EMPTY))

\* Both tiers used their three requests and the call failed.
C9_Witness ==
  \E p \in SmartCalls :
    /\ Ended(p)
    /\ Outer(p).v.tier = "fallback"
    /\ Outer(p).v.sent[Outer(p).v.model] = TierAttempts
    /\ Outer(p).v.sent[Outer(p).v.fallbackModel] = TierAttempts
    /\ procs[p].ret.k = "err"

\* What C10 asks of a generateSmartContent call that ended with a transient
\* error: the tier that failed last used its three requests, and so did the
\* preferred tier if its own last error was transient; with a distinct fallback
\* model, the tier that failed last is the fallback tier, whenever the error
\* is in `viaFallback'.
TiersExhausted(p, viaFallback) ==
  LET v == Outer(p).v
      ret == procs[p].ret
      primaryErr == IF v.tier = "fallback" THEN v.primaryError.v ELSE ret.v IN
  Ended(p) /\ ret.k = "err" /\ ret.v \in RetryableClassErrors =>
    /\ primaryErr \in RetryableClassErrors => v.sent[v.model] = TierAttempts
    /\ v.tier = "fallback" => v.sent[v.fallbackModel] = TierAttempts
    /\ v.model # v.fallbackModel /\ ret.v \in viaFallback => v.tier = "fallback"
    /\ v.tier = "primary" /\ v.model # v.fallbackModel => v.sent[v.fallbackModel] = 0

StartGenerateImage(p) ==
  /\ p = "image"
  /\ Len(procs[p].stack) = 0
  /\ \E model \in {MODEL_IMAGE_FLASH, MODEL_IMAGE_PRO} :
       Commit(p, Called(p, ImageFrame(model)), inflight)

StartEditImage(p) ==
  /\ p = "image"
  /\ Len(procs[p].stack) = 0
  /\ Commit(p, Called(p, EditFrame), inflight)

StartText(p) ==
  /\ p = "text"
  /\ Len(procs[p].stack) = 0
  /\ \E model \in {MODEL_PRIMARY_TEXT, MODEL_FALLBACK_TEXT} :
       Commit(p, Called(p, SmartFrame(model, "text", {"thinkingConfig"}, MODEL_FALLBACK_TEXT)),
              inflight)

InitImage ==
  /\ GLOBAL_IMAGE_QUOTA_EXHAUSTED = FALSE
  /\ apiKey \in {key \in Keys : ~key.envKey}
  /\ procs = [p \in {"image", "text"} |-> Idle]
  /\ inflight = {}
  /\ wiz = NoWizard

NextImage ==
  \/ \E p \in DOMAIN procs : StartGenerateImage(p)
  \/ \E p \in DOMAIN procs : StartEditImage(p)
  \/ \E p \in DOMAIN procs : StartText(p)
  \/ \E p \in DOMAIN procs : Respond(p)
  \/ \E p \in DOMAIN procs : Fail(p)
  \/ \E p \in DOMAIN procs : Timer(p)

SpecImage == InitImage /\ [][NextImage]_vars

\* The tasks that are, or were last, an image call.
ImageCalls ==
  {p \in DOMAIN procs : Outer(p).fn \in {"generateImageFromPrompt", "editGeneratedImage"}}

\* This step, a request of the given purposes got its answer.
Answered(purposes) == \E m \in inflight \ inflight' : m.req.purpose \in purposes

\* This step, a request made as an image request failed with a quota error.
ImageQuotaFailure ==
  \E m \in inflight \ inflight' :
    /\ m.req.purpose \in {"image", "edit"}
    /\ Outer(m.proc)'.v.got.ret.k = "err"
    /\ Outer(m.proc)'.v.got.ret.v \in QuotaClassErrors

\* C4: GLOBAL_IMAGE_QUOTA_EXHAUSTED is false at module load; a step sets it
\* exactly when a request made as an image request (by generateImageFromPrompt
\* or editGeneratedImage) fails in that step with a quota-classified error; no
\* step sets it back to false.
C4_BreakerFlag ==
  /\ GLOBAL_IMAGE_QUOTA_EXHAUSTED = FALSE
  /\ [][GLOBAL_IMAGE_QUOTA_EXHAUSTED' = (GLOBAL_IMAGE_QUOTA_EXHAUSTED \/ ImageQuotaFailure)]_vars

\* An image call ended on a quota failure of its request and the flag is set.
C4_Witness ==
  \E p \in ImageCalls :
    /\ Ended(p)
    /\ Outer(p).v.got.ret \in {Thrown(e) : e \in QuotaClassErrors}
    /\ Outer(p).v.sent[MODEL_IMAGE_FLASH] + Outer(p).v.sent[MODEL_IMAGE_PRO] = 1
    /\ GLOBAL_IMAGE_QUOTA_EXHAUSTED

\* C5: a generateImageFromPrompt call that begins while the flag is set
\* returns a placeholder at once and issues no request; an image call whose
\* request failed with a quota error leaves the flag set, so the next image
\* call is such a call.
C5_BreakerShortCircuits ==
  /\ \A p \in DOMAIN procs :
       Outer(p).fn = "generateImageFromPrompt" /\ Outer(p).v.began =>
         /\ Ended(p)
         /\ procs[p].ret = Val(PLACEHOLDER_BREAKER)
         /\ Outer(p).v.sent = NoneSent
         /\ \A m \in inflight : m.proc # p
  /\ \A p \in ImageCalls :
       Outer(p).v.got.ret \in {Thrown(e) : e \in QuotaClassErrors} =>
         GLOBAL_IMAGE_QUOTA_EXHAUSTED

\* With the flag set, an image generation call ended with the placeholder and
\* without a request.
C5_Witness ==
  \E p \in DOMAIN procs :
    /\ Ended(p)
    /\ Outer(p).fn = "generateImageFromPrompt"
    /\ Outer(p).v.began
    /\ GLOBAL_IMAGE_QUOTA_EXHAUSTED
    /\ procs[p].ret = Val(PLACEHOLDER_BREAKER)

\* What a text call keeps doing whatever the flag is: with an API key it sends
\* its request, a result is the answer of its last request, and it gives up on
\* a transient error only with its retry and fallback budget used.
TextRunsItsCourse(p) ==
  LET v == Outer(p).v
      ret == procs[p].ret IN
  /\ Ended(p) /\ getClient(apiKey).k = "val" => v.sent[v.model] >= 1
  /\ Ended(p) /\ ret.k = "val" => ret = v.got.ret /\ ret.v \in Responses(v.contents) \ {""}
  /\ TiersExhausted(p, RecoverableClassErrors)
  /\ v.tier = "fallback" /\ v.primaryError.v \in QuotaClassErrors => v.sent[v.model] = TierAttempts

\* The step the text task takes on the answer it got is the step it would
\* have taken on that answer with the flag the other way round.
SameStepWhateverTheFlag(p) ==
  LET s == Run([Resumed(p, Outer(p)'.v.got.ret) EXCEPT !.flag = ~@]) IN
  procs'[p] = [stack |-> s.stack, ret |-> s.ret, fin |-> s.fin]

\* C6: the image circuit breaker is isolated from text generation.  A step in
\* which a text request of generateSmartContent gets its answer, a quota error
\* included, leaves the flag as it is; and the flag, set or not, does not alter
\* a text call, which runs its retries and its fallback as it would otherwise.
C6_TextIsolated ==
  /\ [](\A p \in SmartCalls : TextRunsItsCourse(p))
  /\ [][Answered({"text"}) =>
          /\ GLOBAL_IMAGE_QUOTA_EXHAUSTED' = GLOBAL_IMAGE_QUOTA_EXHAUSTED
          /\ \A p \in SmartCalls : procs'[p] # procs[p] => SameStepWhateverTheFlag(p)]_vars

\* A text call that began with the flag set met quota errors on the preferred
\* model three times, fell back and returned the fallback's answer.
C6_Witness ==
  \E p \in SmartCalls :
    /\ Ended(p)
    /\ Outer(p).v.began
    /\ GLOBAL_IMAGE_QUOTA_EXHAUSTED
    /\ Outer(p).v.primaryError \in {Thrown(e) : e \in QuotaClassErrors}
    /\ Outer(p).v.sent[Outer(p).v.model] = TierAttempts
    /\ procs[p].ret.k = "val"

\* ------------------------------------------------------ the wizard's run

\* The wizard on step 1 with a new article, or with a stored draft loaded.
Wizard(stored) ==
  [on |-> TRUE, currentStep |-> 1, isGenerating |-> FALSE, error |-> NO_ERROR,
   article |-> NewArticle, stored |-> stored, reviewTimer |-> FALSE]

\* The user clicks the generate button of step 1, the topic and the keyword
\* filled in or not, with or without a site URL.
StartGenerate(p) ==
  /\ Len(procs[p].stack) = 0
  /\ wiz.currentStep = 1
  /\ \E filled \in BOOLEAN, siteUrl \in BOOLEAN :
       Commit(p, Called(p, GenerateFrame(filled, siteUrl, wiz.stored)), inflight)

\* setTimeout(() => setCurrentStep(3), 1000) fires.
ShowReview ==
  /\ wiz.reviewTimer
  /\ wiz' = [wiz EXCEPT !.currentStep = 3, !.reviewTimer = FALSE]
  /\ UNCHANGED <<GLOBAL_IMAGE_QUOTA_EXHAUSTED, apiKey, procs, inflight>>

Init ==
  /\ GLOBAL_IMAGE_QUOTA_EXHAUSTED \in BOOLEAN
  /\ apiKey \in {key \in Keys : ~key.envKey}
  /\ procs = [p \in {"wizard"} |-> Idle]
  /\ inflight = {}
  /\ wiz \in {Wizard(<<>>), Wizard(<<NewArticle>>)}

Next ==
  \/ \E p \in DOMAIN procs : StartGenerate(p)
  \/ \E p \in DOMAIN procs : Respond(p)
  \/ \E p \in DOMAIN procs : Fail(p)
  \/ \E p \in DOMAIN procs : Timer(p)
  \/ ShowReview

Spec == Init /\ [][Next]_vars

\* The tasks that are, or were last, a handleGenerate run.
GenerateRuns == {p \in DOMAIN procs : Outer(p).fn = "handleGenerate"}

\* C1: a handleGenerate run in which generateArticleStructure or
\* generateMainContent failed has aborted: that stage is the last one started,
\* saveArticle was not called, the stored version of the article is the one
\* from before the run, the article is not 'completed', and the wizard is back
\* on step 1 with an error message.
C1_AbortOnLoadBearingFailure ==
  \A p \in GenerateRuns :
    LET v == Outer(p).v IN
    v.threw \in {"structure", "body"} =>
      /\ Ended(p)
      /\ v.outcome = "aborted"
      /\ v.stages[Len(v.stages)] = v.threw
      /\ v.saves = 0
      /\ wiz.stored = v.stored0
      /\ wiz.article.status # "completed"
      /\ wiz.currentStep = 1
      /\ wiz.error # NO_ERROR
      /\ ~wiz.isGenerating
      /\ ~wiz.reviewTimer

\* The body failed in a run on an article that had a stored version.
C1_Witness ==
  \E p \in GenerateRuns :
    /\ Ended(p)
    /\ Outer(p).v.threw = "body"
    /\ Outer(p).v.stored0 = <<NewArticle>>
    /\ wiz.stored = <<NewArticle>>

\* Structure and body have both returned in the run of task p.
BothSucceeded(p) ==
  /\ Outer(p).v.structure.title # ""
  /\ Outer(p).v.htmlBody # NoHtml

\* A run whose structure and body succeeded ends completed: the article is
\* 'completed', was handed to saveArticle once, and has the listed fields set
\* (the title too, if titled).
CompletedAndSaved(p, titled) ==
  LET v == Outer(p).v
      article == wiz.article IN
  Ended(p) /\ BothSucceeded(p) =>
    /\ v.outcome = "completed"
    /\ v.saves = 1
    /\ wiz.stored = <<article>>
    /\ article.status = "completed"
    /\ titled => article.title \notin {"", "undefined"}
    /\ article.htmlContent # NoHtml
    /\ article.seoData # NoSeo
    /\ article.schemaJsonLd # NoSchema
    /\ article.wordpressPostJson # NoPost
    /\ article.wordpressPostJson.title = article.title

\* C2: whenever generateArticleStructure and generateMainContent both
\* succeed, the run ends with the article 'completed', handed to saveArticle
\* exactly once, with title, htmlContent, seoData, schemaJsonLd and
\* wordpressPostJson populated, whatever the advisory stages did.
C2_CompletedWithAllFields == \A p \in GenerateRuns : CompletedAndSaved(p, TRUE)

\* The same without the title: it holds of every run.
C2_CompletedAndSavedOnce == \A p \in GenerateRuns : CompletedAndSaved(p, FALSE)

\* A run completed and saved an article whose title is undefined: the
\* structure answer was JSON without a title field.
C2_Witness ==
  \E p \in GenerateRuns :
    /\ Ended(p)
    /\ Outer(p).v.outcome = "completed"
    /\ wiz.article.status = "completed"
    /\ wiz.article.title = "undefined"
    /\ wiz.stored = <<wiz.article>>

\* The stages of a run, in order.
StageOrder ==
  <<"serp", "structure", "body", "media", "hero", "metadata", "assembly", "persist">>

\* The prompts a stage sends.
PurposesOf(stage) ==
  CASE stage = "serp" -> {"serp"}
    [] stage = "structure" -> {"structure"}
    [] stage = "body" -> {"links", "body"}
    [] stage = "media" -> {"strategy", "video"}
    [] stage = "hero" -> {"image"}
    [] stage = "metadata" -> {"metadata"}
    [] OTHER -> {}

\* The function a stage awaits.
StageFn(stage) ==
  CASE stage = "serp" -> "analyzeSerp"
    [] stage = "structure" -> "generateArticleStructure"
    [] stage = "body" -> "generateMainContent"
    [] stage = "media" -> "generateMediaStrategy"
    [] stage = "hero" -> "generateImageFromPrompt"
    [] stage = "metadata" -> "generateMetadata"
    [] OTHER -> ""

\* C3: the stages of a handleGenerate run start in the fixed order SERP
\* analysis, structure, body, media strategy, hero image, metadata, assembly,
\* persist; the only call the run awaits is that of the stage started last, or
\* the delay after it; the run has at most one request in flight, and it is a
\* request of the stage started last.
C3_StagesInOrder ==
  \A p \in GenerateRuns :
    LET v == Outer(p).v
        mine == {m \in inflight : m.proc = p} IN
    /\ v.stages = SubSeq(StageOrder, 1, Len(v.stages))
    /\ Cardinality(mine) <= 1
    /\ \A m \in mine : m.req.purpose \in PurposesOf(v.stages[Len(v.stages)])
    /\ Len(procs[p].stack) >= 2 =>
         procs[p].stack[2].fn \in {"delay", StageFn(v.stages[Len(v.stages)])}

\* A run went through all the stages.
C3_Witness ==
  \E p \in GenerateRuns :
    /\ Ended(p)
    /\ Outer(p).v.stages = StageOrder
    /\ Outer(p).v.outcome = "completed"

\* ------------------------------------------- injectVideoIntoHtml on its own

\* The longest HTML fragment tried, in tokens, and the injections in a row.
MaxHtmlLen == 3
MaxInjections == 2

\* The tokens of a fragment: text, the close tags the injection looks for,
\* a line break, and the opening and the end marker of a video block.
HtmlTokens == {"text", "</p>", "</h1>", NL, VIDEO_OPEN, VIDEO_END}
Fragments == UNION {[1..n -> HtmlTokens] : n \in 0..MaxHtmlLen}

\* The video assets: none, those findRealYoutubeVideo resolves, and the same
\* without a caption.
VideoTexts == {"json:watch", "json:watch:alt", "json:short", "prose:url"}
VideoAssets ==
  {EmptyVideo("query")}
  \cup {ResolveVideo("query", text).v : text \in VideoTexts}
  \cup {[ResolveVideo("query", text).v EXCEPT !.caption = ""] : text \in VideoTexts}

\* The fragment html0 and the asset; html is the fragment after `injections'
\* calls of injectVideoIntoHtml, each on the result of the one before.
InitInject ==
  /\ GLOBAL_IMAGE_QUOTA_EXHAUSTED = FALSE
  /\ apiKey = [browserKey |-> TRUE, envKey |-> FALSE]
  /\ procs = [p \in {"caller"} |-> Idle]
  /\ inflight = {}
  /\ wiz \in {[html0 |-> html, videoData |-> videoData, html |-> html, injections |-> 0] :
                html \in Fragments, videoData \in VideoAssets}

InjectVideo ==
  /\ wiz.injections < MaxInjections
  /\ wiz' = [wiz EXCEPT !.html = injectVideoIntoHtml(@, wiz.videoData), !.injections = @ + 1]
  /\ UNCHANGED <<GLOBAL_IMAGE_QUOTA_EXHAUSTED, apiKey, procs, inflight>>

NextInject == InjectVideo

SpecInject == InitInject /\ [][NextInject]_vars

\* The number of video blocks opened in a fragment.
RECURSIVE VideoBlocks(_)
VideoBlocks(html) ==
  IF html = <<>> THEN 0
  ELSE (IF Head(html) = VIDEO_OPEN THEN 1 ELSE 0) + VideoBlocks(Tail(html))

\* A fragment without the opening or the end marker of a video block.
NoVideoBlock(html) == \A i \in 1..Len(html) : html[i] \notin {VIDEO_OPEN, VIDEO_END}

\* C11: for a fragment without a video block and an asset with embed markup,
\* the second of two injections in a row gives a fragment with exactly one
\* video block, equal token for token to the result of the first.
C11_InjectionIdempotent ==
  /\ wiz.injections = 2
  /\ NoVideoBlock(wiz.html0)
  /\ wiz.videoData.embedHtml # ""
  => /\ VideoBlocks(wiz.html) = 1
     /\ wiz.html = injectVideoIntoHtml(wiz.html0, wiz.videoData)

\* Two injections on a paragraph: one video block, and after it the two line
\* breaks the first block was stripped from, which one injection does not give.
C11_Witness ==
  /\ wiz.injections = 2
  /\ wiz.html0 = <<"text", "</p>", "text">>
  /\ wiz.videoData.embedHtml # ""
  /\ VideoBlocks(wiz.html) = 1
  /\ wiz.html = SubSeq(injectVideoIntoHtml(wiz.html0, wiz.videoData), 1,
                       Len(injectVideoIntoHtml(wiz.html0, wiz.videoData)) - 1)
                \o <<NL, NL, "text">>

\* ------------------------------------------ findRealYoutubeVideo on its own

\* A caller resolves a video for the same query again and again; `previous'
\* is the outcome of the resolution before the current one.
StartFindVideo(p) ==
  /\ Len(procs[p].stack) = 0
  /\ Commit(p, [Called(p, Frame("findRealYoutubeVideo", "call", [query |-> "query"]))
                  EXCEPT !.wiz.previous = procs[p].ret],
            inflight)

InitVideo ==
  /\ GLOBAL_IMAGE_QUOTA_EXHAUSTED = FALSE
  /\ apiKey = [browserKey |-> TRUE, envKey |-> FALSE]
  /\ procs = [p \in {"caller"} |-> Idle]
  /\ inflight = {}
  /\ wiz = [on |-> FALSE, previous |-> NoRet]

NextVideo ==
  \/ \E p \in DOMAIN procs : StartFindVideo(p)
  \/ \E p \in DOMAIN procs : Respond(p)
  \/ \E p \in DOMAIN procs : Fail(p)
  \/ \E p \in DOMAIN procs : Timer(p)

SpecVideo == InitVideo /\ [][NextVideo]_vars

\* The resolutions that ended; those that succeeded.
Resolved == {p \in DOMAIN procs : Ended(p) /\ procs[p].fin.fn = "findRealYoutubeVideo"}
Succeeded(ret) == ret.k = "val"

\* C13: the embed markup and the thumbnail address returned by
\* findRealYoutubeVideo depend on the extracted video identifier alone: two
\* resolutions that succeed with URLs of the same identifier return the same
\* embedHtml and the same thumbnailUrl, whatever else the model answered.
C13_EmbedFromIdAlone ==
  \A p \in Resolved :
    /\ Succeeded(procs[p].ret)
    /\ Succeeded(wiz.previous)
    /\ ExtractId(procs[p].ret.v.url) = ExtractId(wiz.previous.v.url)
    => /\ procs[p].ret.v.embedHtml = wiz.previous.v.embedHtml
       /\ procs[p].ret.v.thumbnailUrl = wiz.previous.v.thumbnailUrl

\* Two resolutions of the same video, the model giving an altText the second
\* time only: the same thumbnail, another embed markup.
C13_Witness ==
  \E p \in Resolved :
    /\ Succeeded(procs[p].ret)
    /\ Succeeded(wiz.previous)
    /\ procs[p].ret.v.url = wiz.previous.v.url
    /\ procs[p].ret.v.thumbnailUrl = wiz.previous.v.thumbnailUrl
    /\ procs[p].ret.v.embedHtml = EmbedHtml(VIDEO_ID, "Alt text")
    /\ wiz.previous.v.embedHtml = EmbedHtml(VIDEO_ID, "Title")

\* --------------------------------------------- cleanAndParseJSON on its own

\* The longest text tried outside and inside a fenced block, in tokens.
MaxTextLen == 3

TextTokens == {SPACE, FENCE, "json", "{", "}", "[", "]", "1", "prose"}
ShortTexts == UNION {[1..n -> TextTokens] : n \in 0..MaxTextLen}

\* The texts tried: the short ones, and each of them in a fenced block, with or
\* without the language tag, alone or with prose or white space around it.
Texts ==
  ShortTexts
  \cup {pre \o <<FENCE>> \o tag \o body \o <<FENCE>> \o post :
          pre \in {<<>>, <<"prose">>, <<SPACE>>}, tag \in {<<>>, <<"json">>},
          body \in ShortTexts, post \in {<<>>, <<"prose">>, <<SPACE>>}}

\* A response text and what cleanAndParseJSON made of it.
InitParse ==
  /\ GLOBAL_IMAGE_QUOTA_EXHAUSTED = FALSE
  /\ apiKey = [browserKey |-> TRUE, envKey |-> FALSE]
  /\ procs = [p \in {"caller"} |-> Idle]
  /\ inflight = {}
  /\ wiz \in {[text |-> text, out |-> NoRet] : text \in Texts}

ParseText ==
  /\ wiz.out = NoRet
  /\ wiz' = [wiz EXCEPT !.out = cleanAndParseJSON(wiz.text)]
  /\ UNCHANGED <<GLOBAL_IMAGE_QUOTA_EXHAUSTED, apiKey, procs, inflight>>

NextParse == ParseText

SpecParse == InitParse /\ [][NextParse]_vars

\* The span C14 speaks of: the content of the fenced block when the text has
\* one, else the text, both without the white space around; and of that, the
\* stretch from the first opening brace or bracket to the last closing one,
\* when it has both in that order.
ExtractedSpan(text) ==
  LET fences == {i \in 1..Len(text) : text[i] = FENCE}
      first == CHOOSE i \in fences : \A j \in fences : i <= j
      second == CHOOSE i \in fences \ {first} : \A j \in fences \ {first} : i <= j
      inside == SubSeq(text, first + 1, second - 1)
      content == IF Cardinality(fences) < 2 THEN TrimText(text)
                 ELSE IF inside # <<>> /\ inside[1] = "json" THEN TrimText(Tail(inside))
                 ELSE TrimText(inside)
      opens == {i \in 1..Len(content) : content[i] \in {"{", "["}}
      closes == {i \in 1..Len(content) : content[i] \in {"}", "]"}}
      start == CHOOSE i \in opens : \A j \in opens : i <= j
      end == CHOOSE i \in closes : \A j \in closes : i >= j
  IN IF opens # {} /\ closes # {} /\ start < end THEN SubSeq(content, start, end) ELSE content

\* C14: cleanAndParseJSON has three outcomes.  An empty or white-space-only
\* text raises the empty-response error; a text whose extracted span is valid
\* JSON gives the value parsed from that span, with or without prose around a
\* fenced block; any other text raises the malformed-output error, which is
\* another error than the empty-response one and not the parser's exception.
C14_ThreeOutcomes ==
  wiz.out # NoRet =>
    /\ MSG_JSON_BAD # MSG_JSON_EMPTY
    /\ IF \A i \in 1..Len(wiz.text) : wiz.text[i] = SPACE
       THEN wiz.out = Thrown(Err(0, 0, MSG_JSON_EMPTY))
       ELSE IF IsJsonValue(Unspaced(ExtractedSpan(wiz.text)))
       THEN wiz.out = Val(Unspaced(ExtractedSpan(wiz.text)))
       ELSE wiz.out = Thrown(Err(0, 0, MSG_JSON_BAD))

\* A fenced JSON object with prose before and after it was parsed.
C14_Witness ==
  /\ wiz.text = <<"prose", FENCE, "json", "{", "1", "}", FENCE, "prose">>
  /\ wiz.out = Val(<<"{", "1", "}">>)

\* ---------------------------------------------- generateMetadata on its own

\* A keyword of one word, one of two words and one that is a space, which the
\* guard of handleGenerate lets through.
Keywords == {KEYWORD, "palavra chave", " "}

StartMetadata(p) ==
  /\ Len(procs[p].stack) = 0
  /\ \E keyword \in Keywords :
       Commit(p, Called(p, Frame("generateMetadata", "call",
                                 [topic |-> "topic", keyword |-> keyword,
                                  failed |-> FALSE])), inflight)

InitMetadata ==
  /\ GLOBAL_IMAGE_QUOTA_EXHAUSTED = FALSE
  /\ apiKey \in Keys
  /\ procs = [p \in {"caller"} |-> Idle]
  /\ inflight = {}
  /\ wiz = NoWizard

NextMetadata ==
  \/ \E p \in DOMAIN procs : StartMetadata(p)
  \/ \E p \in DOMAIN procs : Respond(p)
  \/ \E p \in DOMAIN procs : Fail(p)
  \/ \E p \in DOMAIN procs : Timer(p)

SpecMetadata == InitMetadata /\ [][NextMetadata]_vars

\* The word occurs in the text and ends within its first n characters.
WithinFirst(words, word, n) ==
  \E i \in 1..Len(words) : words[i] = word /\ TextLen(SubSeq(words, 1, i)) <= n

\* The SeoData the generateMetadata calls returned.
ReturnedSeo ==
  {procs[p].ret.v : p \in {q \in DOMAIN procs : Ended(q) /\ procs[q].fin.fn = "generateMetadata"}}

\* C15: every SeoData generateMetadata returns, the model's or the fallback,
\* has a seoTitle of at most 60 characters, a metaDescription of at most 156,
\* a wordpressExcerpt of at most 180, and the target keyword within the first
\* 100 characters of the metaDescription.
C15_SeoWithinLimits ==
  \A seo \in ReturnedSeo :
    /\ TextLen(seo.seoTitle) <= 60
    /\ TextLen(seo.metaDescription) <= 156
    /\ TextLen(seo.wordpressExcerpt) <= 180
    /\ WithinFirst(seo.metaDescription, seo.targetKeyword, 100)

\* generateMetadata returned the model's SeoData with a seoTitle of more than
\* 60 characters and a metaDescription that does not name the keyword.
C15_Witness ==
  \E seo \in ReturnedSeo :
    /\ seo = MetadataOf("json:long", KEYWORD)
    /\ TextLen(seo.seoTitle) > 60
    /\ ~WithinFirst(seo.metaDescription, KEYWORD, 100)

\* ------------------------------------------ generateTechnicalSeo on its own

MaxClock == 2
MaxSeoCalls == 2
Clock == 1..MaxClock
Authors == {NoAuthor, currentAuthor}

\* Articles as handleGenerate hands them to generateTechnicalSeo.
SeoArticles ==
  {[NewArticle EXCEPT !.title = title, !.htmlContent = html, !.seoData = seo,
                      !.heroUrl = hero] :
     title \in {"undefined", "Title"},
     html \in {HtmlOf("html"), <<"<p>", "</p>">>},
     seo \in {MetadataOf("json", KEYWORD), MetadataDefaults(KEYWORD)},
     hero \in {"", PLACEHOLDER_QUOTA, "data:image/jpeg;base64,imageData"}}

InitSeo ==
  /\ GLOBAL_IMAGE_QUOTA_EXHAUSTED = FALSE
  /\ apiKey \in Keys
  /\ procs = [p \in {"caller"} |-> Idle]
  /\ inflight = {}
  /\ \E article \in SeoArticles, author \in Authors :
       wiz = [on |-> FALSE, article |-> article, author |-> author, now |-> 1,
              results |-> <<>>]

\* Time passes.
Tick ==
  /\ wiz.now < MaxClock
  /\ wiz' = [wiz EXCEPT !.now = @ + 1]
  /\ UNCHANGED <<GLOBAL_IMAGE_QUOTA_EXHAUSTED, apiKey, procs, inflight>>

\* One more call of generateTechnicalSeo with the same article and author.
TechnicalSeo ==
  /\ Len(wiz.results) < MaxSeoCalls
  /\ wiz' = [wiz EXCEPT
               !.results = Append(@, generateTechnicalSeo(wiz.article, wiz.author, wiz.now))]
  /\ UNCHANGED <<GLOBAL_IMAGE_QUOTA_EXHAUSTED, apiKey, procs, inflight>>

NextSeo ==
  \/ Tick
  \/ TechnicalSeo

SpecSeo == InitSeo /\ [][NextSeo]_vars

\* C16: generateTechnicalSeo is a deterministic function of (article,
\* author): two calls with equal arguments return the same schemaJsonLd and
\* the same wordpressPostJson, and no request is issued.
C16_TechnicalSeoDeterministic ==
  /\ inflight = {}
  /\ \A i, j \in 1..Len(wiz.results) :
       /\ wiz.results[i].schemaJsonLd = wiz.results[j].schemaJsonLd
       /\ wiz.results[i].wordpressPostJson = wiz.results[j].wordpressPostJson

\* Two calls with the same article and author, made at different times: the
\* post payloads are equal and the dates of the schema graphs are not.
C16_Witness ==
  /\ Len(wiz.results) = 2
  /\ wiz.results[1].wordpressPostJson = wiz.results[2].wordpressPostJson
  /\ wiz.results[1].schemaJsonLd.datePublished # wiz.results[2].schemaJsonLd.datePublished

\* ------------------------------------------- the review step of the wizard

MaxSearches == 1

\* The articles the wizard shows at step 3: completed by handleGenerate, with
\* or without a video.
EditorArticles ==
  {CompletedArticle(NewArticle, "analysis", [title |-> "Title"], HtmlOf("html"),
                    [videoData |-> videoData, imageSpecs |-> "strategy"],
                    "data:image/jpeg;base64,imageData", MetadataOf("json", KEYWORD)) :
     videoData \in {EmptyVideo("title"), ResolveVideo("search_query", "json:watch").v}}

\* getSettings().wordpress: the three fields filled in, or the password not.
WordPressConfigs ==
  {[endpoint |-> TRUE, username |-> TRUE, applicationPassword |-> set] : set \in BOOLEAN}

\* The failures of a request as the review step sees them: of a model
\* request, one that is retried and one that is not; of a fetch, its rejection.
EditorErrors(purpose) ==
  IF purpose \in {"wp/v2/media", "wp/v2/media/id", "wp/v2/posts"}
  THEN {Err(0, 0, MSG_FETCH)}
  ELSE {Err(429, 429, MSG_429), Err(400, 400, MSG_400)}

InitEditor ==
  /\ GLOBAL_IMAGE_QUOTA_EXHAUSTED = FALSE
  /\ apiKey \in {key \in Keys : ~key.envKey}
  /\ procs = [p \in {"editor"} |-> Idle]
  /\ inflight = {}
  /\ \E article \in EditorArticles, config \in WordPressConfigs :
       wiz = [on |-> TRUE, currentStep |-> 3, isGenerating |-> FALSE, error |-> NO_ERROR,
              article |-> article, stored |-> <<article>>, reviewTimer |-> FALSE,
              settings |-> [wordpress |-> config], searches |-> 0]

\* The handlers of the review step run one at a time, as task p.
\* The user clicks the video search button.
StartSearchVideo(p) ==
  /\ Len(procs[p].stack) = 0
  /\ wiz.searches < MaxSearches
  /\ Commit(p, [Called(p, HandlerFrame("handleSearchVideo", wiz.article))
                  EXCEPT !.wiz.searches = @ + 1],
            inflight)

\* The user regenerates the hero image.
StartGenerateHero(p) ==
  /\ Len(procs[p].stack) = 0
  /\ wiz.article.imageSpecs # ""
  /\ Commit(p, Called(p, HandlerFrame("handleGenerateImage", wiz.article)), inflight)

\* The user submits an edit of the hero image.
StartEditHero(p) ==
  /\ Len(procs[p].stack) = 0
  /\ wiz.article.imageSpecs # ""
  /\ Commit(p, Called(p, HandlerFrame("handleEditImageSubmit", wiz.article)), inflight)

\* The user clicks the publish button.
StartPublish(p) ==
  /\ Len(procs[p].stack) = 0
  /\ Commit(p, Called(p, HandlerFrame("handlePublishToWordPress", wiz.article)), inflight)

\* handleSaveDraft: the article is stored with status 'draft'.
handleSaveDraft ==
  /\ wiz' = [wiz EXCEPT !.stored = saveArticle(@, [wiz.article EXCEPT !.status = "draft"])]
  /\ UNCHANGED <<GLOBAL_IMAGE_QUOTA_EXHAUSTED, apiKey, procs, inflight>>

\* A request in flight fails.
FailEditor(p) ==
  \E m \in inflight : m.proc = p /\ FailWith(p, EditorErrors(m.req.purpose))

NextEditor ==
  \/ \E p \in DOMAIN procs : StartSearchVideo(p)
  \/ \E p \in DOMAIN procs : StartGenerateHero(p)
  \/ \E p \in DOMAIN procs : StartEditHero(p)
  \/ \E p \in DOMAIN procs : StartPublish(p)
  \/ handleSaveDraft
  \/ \E p \in DOMAIN procs : Respond(p)
  \/ \E p \in DOMAIN procs : FailEditor(p)
  \/ \E p \in DOMAIN procs : Timer(p)

SpecEditor == InitEditor /\ [][NextEditor]_vars

\* The article on the screen and the article in the store.
Articles == {wiz.article} \cup {wiz.stored[i] : i \in 1..Len(wiz.stored)}

\* The handler calls that have ended.
Handled(fns) == {p \in DOMAIN procs : Ended(p) /\ procs[p].fin.fn \in fns}

HasVideoBlock(html) == IndexOf(html, VIDEO_OPEN) # 0

\* The markup and the thumbnail of a VideoData are those of the 11-character
\* identifier in its URL.
BuiltFromId(videoData) ==
  LET videoId == ExtractId(videoData.url) IN
  /\ videoId # NoId
  /\ Len(videoId) = 11
  /\ videoData.thumbnailUrl = ThumbnailUrl(videoId)
  /\ videoData.embedHtml \in
       {EmbedHtml(videoId, embedTitle) :
          embedTitle \in {videoData.altText, videoData.title, "Video Player"}}

\* C12: findRealYoutubeVideo fails or returns a VideoData whose embedHtml and
\* thumbnailUrl are built from an 11-character identifier extracted from its
\* URL; an article produced by handleGenerate or handleSearchVideo has a video
\* block in its htmlContent only if its videoData has such an embedHtml.
C12_VideoBlockHasRealEmbed ==
  /\ \A p \in Handled({"handleSearchVideo"}) :
       LET v == procs[p].fin.v IN
       /\ (v.found.k = "val") # (v.threw.k = "err")
       /\ v.found.k = "val" => BuiltFromId(v.found.v)
  /\ \A article \in Articles :
       HasVideoBlock(article.htmlContent) =>
         article.videoData.embedHtml # "" /\ BuiltFromId(article.videoData)

\* A search found a video under a short link and put its block into an
\* article that had none.
C12_Witness ==
  \E p \in Handled({"handleSearchVideo"}) :
    LET v == procs[p].fin.v IN
    /\ v.found.k = "val"
    /\ v.found.v.url = ShortUrl(VIDEO_ID)
    /\ ~HasVideoBlock(v.article.htmlContent)
    /\ HasVideoBlock(wiz.article.htmlContent)
    /\ wiz.article.videoData = v.found.v
    /\ wiz.stored = <<wiz.article>>

\* C17: whatever the status of the article, the post payload built by
\* generateTechnicalSeo and the body of the post-creation request of
\* publishToWordPress carry status 'draft'.
C17_NeverAutoPublishes ==
  /\ \A m \in inflight : m.req.purpose = "wp/v2/posts" => m.req.body.status = "draft"
  /\ \A article \in Articles : article.wordpressPostJson.status = "draft"

\* The post-creation request of an article that is already published is in
\* flight.
C17_Witness ==
  \E m \in inflight :
    /\ m.req.purpose = "wp/v2/posts"
    /\ procs[m.proc].stack[1].v.article.status = "published"
    /\ m.req.body.status = "draft"

\* C18: the stored article's wordpressPostJson is the payload that
\* generateTechnicalSeo derives from the article's current fields; its content
\* is the current htmlContent.
C18_PayloadFollowsArticle ==
  \A i \in 1..Len(wiz.stored) :
    LET article == wiz.stored[i] IN
    /\ article.wordpressPostJson =
         generateTechnicalSeo(article, currentAuthor, FirstReading).wordpressPostJson
    /\ article.wordpressPostJson.content = article.htmlContent

\* A video search has ended and stored the article with the video block in
\* htmlContent and the payload of before.
C18_Witness ==
  \E p \in Handled({"handleSearchVideo"}) :
    LET v == procs[p].fin.v IN
    /\ v.found.k = "val"
    /\ wiz.stored[1].videoData = v.found.v
    /\ wiz.stored[1].wordpressPostJson = v.article.wordpressPostJson
    /\ wiz.stored[1].htmlContent # v.article.htmlContent

Rank(status) == CASE status = "draft" -> 1 [] status = "completed" -> 2 [] status = "published" -> 3

\* C19: the status of the stored article only moves forward along draft,
\* completed, published.
C19_StatusOnlyForward ==
  [][Rank(wiz'.stored[1].status) >= Rank(wiz.stored[1].status)]_vars

\* The article on the screen is completed or published and its stored version
\* is a draft.
C19_Witness ==
  /\ wiz.article.status \in {"completed", "published"}
  /\ wiz.stored[1].status = "draft"
  /\ wiz.stored[1].htmlContent = wiz.article.htmlContent

NoKey == ~apiKey.browserKey /\ ~apiKey.envKey
IsHttp(req) == req.purpose \in {"wp/v2/media", "wp/v2/media/id", "wp/v2/posts"}

C21_FallbackConfigStripped ==
  \A m \in inflight :
    m.proc \in SmartCalls =>
      LET v == Outer(m.proc).v IN
      /\ v.config \in TextConfigs
      /\ IF v.tier = "fallback"
         THEN /\ m.req.model = v.fallbackModel
              /\ \A key \in v.config \cup m.req.config :
                   key \in m.req.config <=>
                     key \in v.config /\ key \notin {"thinkingConfig", "responseSchema"}
         ELSE /\ m.req.model = v.model
              /\ m.req.config = v.config

\* A fallback request is in flight without the thinking budget the caller's
\* configuration still has, and with its other key.
C21_Witness ==
  \E m \in inflight :
    /\ m.proc \in SmartCalls
    /\ Outer(m.proc).v.tier = "fallback"
    /\ "thinkingConfig" \in Outer(m.proc).v.config
    /\ m.req.config = {"maxOutputTokens"}

\* The place the video block belongs at in a fragment: the position of the
\* first </p>, else of the first </h1>, else 0, the top.
FirstOf(html, tag) ==
  {i \in 1..Len(html) : html[i] = tag /\ \A j \in 1..(i - 1) : html[j] # tag}
PlaceOfVideo(html) ==
  IF FirstOf(html, "</p>") # {} THEN FirstOf(html, "</p>")
  ELSE IF FirstOf(html, "</h1>") # {} THEN FirstOf(html, "</h1>")
  ELSE {0}

\* The video block of an asset, from its opening to its end marker.
BlockOf(videoData) == Tail(VideoSection(videoData))
LineBreaks == {<<>>, <<NL>>, <<NL, NL>>}

\* C22: injectVideoIntoHtml(h, v) is h when v has no embed markup; else it is
\* h without its earlier video blocks, with one video block put right after
\* the first </p>, else right after the first </h1>, else on top, nothing but
\* line breaks around it and everything else in its order.
C22_VideoBlockPlaced ==
  wiz.injections = 1 =>
    IF wiz.videoData.embedHtml = "" THEN wiz.html = wiz.html0
    ELSE LET cleanHtml == StripVideo(wiz.html0) IN
         /\ VideoBlocks(wiz.html) = VideoBlocks(cleanHtml) + 1
         /\ \E k \in PlaceOfVideo(cleanHtml), before \in LineBreaks, after \in LineBreaks :
              wiz.html = SubSeq(cleanHtml, 1, k) \o before \o BlockOf(wiz.videoData) \o after
                         \o SubSeq(cleanHtml, k + 1, Len(cleanHtml))

\* A fragment with an earlier video block and a paragraph: the new block
\* stands after the </p>, the earlier one is gone.
C22_Witness ==
  /\ wiz.injections = 1
  /\ wiz.videoData.embedHtml # ""
  /\ wiz.html0 = <<VIDEO_OPEN, VIDEO_END, "</p>">>
  /\ wiz.html = <<"</p>", NL, NL>> \o BlockOf(wiz.videoData)

\* value.trim() === '' for a string of the model, and for a text of words.
Blank(string) == string \in {"", " "}
BlankText(words) == \A i \in 1..Len(words) : Blank(words[i])

\* The generateMetadata calls that have ended.
MetadataCalls == {p \in DOMAIN procs : Ended(p) /\ procs[p].fin.fn = "generateMetadata"}

\* C23: generateMetadata never throws; when its request or the parsing of the
\* answer failed it returns the defaults for its keyword, whose seoTitle,
\* metaDescription, slug and targetKeyword are not blank.
C23_MetadataDefaultsNotBlank ==
  \A p \in MetadataCalls :
    LET seo == procs[p].ret.v IN
    /\ procs[p].ret.k = "val"
    /\ procs[p].fin.v.failed =>
         /\ seo.targetKeyword = procs[p].fin.v.keyword
         /\ ~BlankText(seo.seoTitle)
         /\ ~BlankText(seo.metaDescription)
         /\ ~Blank(seo.slug)
         /\ ~Blank(seo.targetKeyword)

\* The metadata request failed for the keyword that is one space: the
\* defaults returned have a blank seoTitle.
C23_Witness ==
  \E p \in MetadataCalls :
    /\ procs[p].fin.v.failed
    /\ procs[p].fin.v.keyword = " "
    /\ procs[p].ret = Val(MetadataDefaults(" "))
    /\ BlankText(procs[p].ret.v.seoTitle)

\* --------------------------- the internal links of generateMainContent

MaxLinks == 4
MaxBodyLen == 2

\* The URLs the link search can answer with: two posts of the site, one of
\* them also with a query, two more posts, a post of another site whose host
\* ends in the domain's name, and a post of a site that has nothing of it.
DOMAIN_NAME == "example.com"
SiteUrls == {<<SCHEME, DOMAIN_NAME, "/">>, <<DOMAIN_NAME>>}
SearchUrls ==
  {<<SCHEME, DOMAIN_NAME, "/a">>, <<SCHEME, DOMAIN_NAME, "/a", "?", "utm=1">>,
   <<SCHEME, DOMAIN_NAME, "/b">>, <<SCHEME, DOMAIN_NAME, "/e">>,
   <<SCHEME, "not", DOMAIN_NAME, "/c">>, <<SCHEME, "other.org", "/d">>}

\* The answers: up to MaxLinks of the URLs, no URL twice.
UrlLists ==
  UNION {{urls \in [1..n -> SearchUrls] : \A i, j \in 1..n : urls[i] = urls[j] => i = j} :
           n \in 0..MaxLinks}

\* The bodies: text, the close tags the splice looks for and the mention of
\* the references.
BodyTokens == {"text", "</ol>", "</article>", "referencias"}
Bodies == UNION {[1..n -> BodyTokens] : n \in 0..MaxBodyLen}

\* The orders a shuffle of n items can give.
Orders(n) == {order \in [1..n -> 1..n] : \A i, j \in 1..n : order[i] = order[j] => i = j}

InitLinks ==
  /\ GLOBAL_IMAGE_QUOTA_EXHAUSTED = FALSE
  /\ apiKey = [browserKey |-> TRUE, envKey |-> FALSE]
  /\ procs = [p \in {"caller"} |-> Idle]
  /\ inflight = {}
  /\ \E siteUrl \in SiteUrls, urls \in UrlLists, parses \in BOOLEAN, body \in Bodies :
       wiz = [on |-> FALSE, siteUrl |-> siteUrl, urls |-> urls, parses |-> parses,
              body |-> body, done |-> FALSE, selectedLinks |-> <<>>, html |-> NoHtml]

\* The second half of the link discovery and the splice, for one outcome of
\* the shuffle.
SpliceFoundLinks ==
  /\ ~wiz.done
  /\ LET domain == DomainOf(wiz.siteUrl)
         allValidLinks == UniqueLinks(FoundLinks(wiz.parses, wiz.urls, domain), domain, {}) IN
     \E order \in Orders(Len(allValidLinks)) :
       LET selectedLinks == SelectedLinks(allValidLinks, order)
           internalLinksBlock == InternalLinksBlock(selectedLinks) IN
       wiz' = [wiz EXCEPT
                 !.done = TRUE,
                 !.selectedLinks = selectedLinks,
                 !.html = IF internalLinksBlock # <<>>
                          THEN SpliceBlock(wiz.body, internalLinksBlock) ELSE wiz.body]
  /\ UNCHANGED <<GLOBAL_IMAGE_QUOTA_EXHAUSTED, apiKey, procs, inflight>>

NextLinks == SpliceFoundLinks

SpecLinks == InitLinks /\ [][NextLinks]_vars

\* The host of a URL: what stands between the scheme and the path.
HostOf(url) == SelectSeq(SubSeq(url, 2, Len(CleanUrl(url))), LAMBDA token : token \notin Paths)

\* The place of the links block in a body: after the last </ol> when the body
\* mentions the references, else before the last </article>, else the end.
LastOf(html, tag) ==
  {i \in 1..Len(html) : html[i] = tag /\ \A j \in (i + 1)..Len(html) : html[j] # tag}
PlaceOfLinks(html) ==
  IF LastOf(html, "</ol>") # {} /\ LastOf(html, "referencias") # {} THEN LastOf(html, "</ol>")
  ELSE IF LastOf(html, "</article>") # {} THEN {i - 1 : i \in LastOf(html, "</article>")}
  ELSE {Len(html)}

\* C24: with at least one valid link the body has the links block once, after
\* the last </ol> of a body that mentions the references, else before the last
\* </article>, else at the end; the block lists at most 3 links, of pairwise
\* distinct URLs, each of the configured domain.  With no valid link the body
\* is returned as it is.
C24_LinksBlockSplicedOnce ==
  wiz.done =>
    LET selectedLinks == wiz.selectedLinks
        block == InternalLinksBlock(selectedLinks) IN
    IF selectedLinks = <<>> THEN wiz.html = wiz.body
    ELSE /\ Cardinality({i \in 1..Len(wiz.html) : wiz.html[i] = LINKS_OPEN}) = 1
         /\ \E k \in PlaceOfLinks(wiz.body) :
              wiz.html = SubSeq(wiz.body, 1, k) \o block \o SubSeq(wiz.body, k + 1, Len(wiz.body))
         /\ Len(selectedLinks) <= 3
         /\ \A i, j \in 1..Len(selectedLinks) :
              selectedLinks[i].url = selectedLinks[j].url => i = j
         /\ \A i \in 1..Len(selectedLinks) :
              HostOf(selectedLinks[i].url) = <<DOMAIN_NAME>>

\* Four posts were found, one of them on notexample.com: the block spliced
\* after the references lists three links and that one among them.
C24_Witness ==
  /\ wiz.done
  /\ Len(wiz.urls) = 4
  /\ Len(wiz.selectedLinks) = 3
  /\ wiz.body = <<"referencias", "</ol>">>
  /\ wiz.html = wiz.body \o InternalLinksBlock(wiz.selectedLinks)
  /\ \E i \in 1..3 : wiz.selectedLinks[i].url = <<SCHEME, "not", DOMAIN_NAME, "/c">>

\* --------------------------- the storage of the articles under a quota

MaxArticles == 6
MaxFree == 2

\* An article of the collection: its id, a text field, and the URLs of its
\* image specs.  An embedded image weighs ImageWeight on the storage, the rest
\* of an article ArticleWeight.
EMBEDDED_URL == "data:image/jpeg;base64,imageData"
HOSTED_URL == "https://placehold.co/1280x720"
ArticleWeight == 1
ImageWeight == 2

RECURSIVE SizeOf(_)
SizeOf(articles) ==
  IF articles = <<>> THEN 0
  ELSE LET a == Head(articles) IN
       ArticleWeight
       + ImageWeight * Cardinality({i \in 1..Len(a.imageSpecs) : IsDataUrl(a.imageSpecs[i])})
       + SizeOf(Tail(articles))

\* trySaveArticles(articles): TRUE when setItem took the collection, FALSE
\* when it raised the quota error.
trySaveArticles(articles, capacity) == SizeOf(articles) <= capacity

\* articles.findIndex(a => a.id === id), 0 for none.
FindIndex(articles, id) ==
  IF \E i \in 1..Len(articles) : articles[i].id = id
  THEN CHOOSE i \in 1..Len(articles) :
         articles[i].id = id /\ \A j \in 1..(i - 1) : articles[j].id # id
  ELSE 0

\* The embedded images of every article but the one being saved, blanked.
StripOthers(articles, id) ==
  [i \in 1..Len(articles) |->
     IF articles[i].id = id THEN articles[i]
     ELSE [articles[i] EXCEPT
             !.imageSpecs = [k \in 1..Len(@) |-> IF IsDataUrl(@[k]) THEN "" ELSE @[k]]]]

\* The loop over the oldest articles: pop and write while more than 5 remain;
\* the writes made, the last of them the one that fitted, if any did.
RECURSIVE RemoveOldest(_, _)
RemoveOldest(articles, capacity) ==
  IF Len(articles) > 5
  THEN LET rest == SubSeq(articles, 1, Len(articles) - 1) IN
       IF trySaveArticles(rest, capacity) THEN <<rest>>
       ELSE <<rest>> \o RemoveOldest(rest, capacity)
  ELSE <<>>

\* Every image URL of the article being saved, blanked.
StripOwn(articles, currentIdx) ==
  [articles EXCEPT ![currentIdx].imageSpecs = [k \in 1..Len(@) |-> ""]]

\* saveArticle(article) on a storage that takes `capacity`: what the storage
\* holds afterwards, the alert shown, and the writes tried, in order.
ALERT_IMAGES == "Aviso de Armazenamento"
ALERT_CRITICAL == "Erro Critico"
Written(step, articles) == [step |-> step, articles |-> articles]
Outcome(persisted, alert, writes) == [persisted |-> persisted, alert |-> alert, writes |-> writes]
saveArticleUnderQuota(stored, article, capacity) ==
  LET index == FindIndex(stored, article.id)
      merged == IF index > 0 THEN [stored EXCEPT ![index] = article] ELSE <<article>> \o stored
      stripped == StripOthers(merged, article.id)
      pops == RemoveOldest(stripped, capacity)
      pruned == IF pops = <<>> THEN stripped ELSE pops[Len(pops)]
      currentIdx == FindIndex(pruned, article.id)
      bare == StripOwn(pruned, currentIdx)
      w1 == <<Written("plain", merged)>>
      w2 == w1 \o <<Written("others", stripped)>>
      w3 == w2 \o [i \in 1..Len(pops) |-> Written("oldest", pops[i])]
      w4 == w3 \o <<Written("own", bare)>> IN
  IF trySaveArticles(merged, capacity) THEN Outcome(merged, "", w1)
  ELSE IF trySaveArticles(stripped, capacity) THEN Outcome(stripped, "", w2)
  ELSE IF pops # <<>> /\ trySaveArticles(pruned, capacity) THEN Outcome(pruned, "", w3)
  ELSE IF currentIdx > 0 /\ trySaveArticles(bare, capacity) THEN Outcome(bare, ALERT_IMAGES, w4)
  ELSE Outcome(stored, ALERT_CRITICAL, IF currentIdx > 0 THEN w4 ELSE w3)

\* The image specs an article can have: none, one embedded image, an embedded
\* and a hosted one.
ImageShapes == {<<>>, <<EMBEDDED_URL>>, <<EMBEDDED_URL, HOSTED_URL>>}
StoredArticle(id, text, imageSpecs) == [id |-> id, text |-> text, imageSpecs |-> imageSpecs]

\* The collections the storage can hold: up to MaxArticles articles, the
\* newest first.
Collections ==
  UNION {{[i \in 1..n |-> StoredArticle(n + 1 - i, "text", shapes[i])] :
            shapes \in [1..n -> ImageShapes]} : n \in 0..MaxArticles}

\* The storage holds a collection that fitted when it was written; what the
\* other keys left free for the articles is up to MaxFree beyond it.
InitStorage ==
  /\ GLOBAL_IMAGE_QUOTA_EXHAUSTED = FALSE
  /\ apiKey = [browserKey |-> TRUE, envKey |-> FALSE]
  /\ procs = [p \in {"caller"} |-> Idle]
  /\ inflight = {}
  /\ \E stored \in Collections, free \in 0..MaxFree :
       wiz = [on |-> FALSE, stored |-> stored, before |-> stored,
              capacity |-> SizeOf(stored) + free,
              saved |-> <<>>, outcome |-> Outcome(stored, "", <<>>)]

\* One saveArticle call: a new article, or a stored one with its text edited
\* and its images as the editor left them.
SaveArticle ==
  /\ wiz.saved = <<>>
  /\ \E id \in 1..(Len(wiz.stored) + 1), imageSpecs \in ImageShapes :
       LET article == StoredArticle(id, "edited", imageSpecs)
           outcome == saveArticleUnderQuota(wiz.stored, article, wiz.capacity) IN
       wiz' = [wiz EXCEPT !.saved = <<article>>, !.outcome = outcome,
                          !.stored = outcome.persisted]
  /\ UNCHANGED <<GLOBAL_IMAGE_QUOTA_EXHAUSTED, apiKey, procs, inflight>>

NextStorage == SaveArticle

SpecStorage == InitStorage /\ [][NextStorage]_vars

\* The writes of the saveArticle call made, and the collection the first of
\* them tried: the stored one with the saved article merged in.
Writes == wiz.outcome.writes
Merged == Writes[1].articles
StepRank(step) == CASE step = "plain" -> 0 [] step = "others" -> 1 [] step = "oldest" -> 2
                    [] step = "own" -> 3
IdsOf(articles) == [i \in 1..Len(articles) |-> articles[i].id]

\* An article of a write keeps the text and every image URL that is not
\* embedded of the article of its id in the merged collection.
Preserved(a) ==
  \E i \in 1..Len(Merged) :
    /\ Merged[i].id = a.id
    /\ Merged[i].text = a.text
    /\ Len(Merged[i].imageSpecs) = Len(a.imageSpecs)
    /\ \A k \in 1..Len(a.imageSpecs) :
         ~IsDataUrl(Merged[i].imageSpecs[k]) => a.imageSpecs[k] = Merged[i].imageSpecs[k]

\* C25: a saveArticle call whose write fails on the quota degrades in the
\* order plain write, images of the other articles stripped, oldest articles
\* removed one at a time while more than 5 remain, images of the saved article
\* stripped, critical error, and stops at the first write that succeeds; no
\* article is removed before the others' images were stripped; no step alters
\* a text field or an image URL that is not embedded.
C25_DegradesInOrder ==
  wiz.saved # <<>> =>
    /\ Writes[1].step = "plain"
    /\ \A i \in 1..(Len(Writes) - 1) :
         /\ ~trySaveArticles(Writes[i].articles, wiz.capacity)
         /\ StepRank(Writes[i].step) <= StepRank(Writes[i + 1].step)
         /\ StepRank(Writes[i].step) = StepRank(Writes[i + 1].step) => Writes[i].step = "oldest"
         /\ Writes[i].step = "plain" => Writes[i + 1].step = "others"
         /\ IF Writes[i + 1].step = "oldest"
            THEN /\ Len(Writes[i].articles) > 5
                 /\ IdsOf(Writes[i + 1].articles)
                      = SubSeq(IdsOf(Writes[i].articles), 1, Len(Writes[i].articles) - 1)
            ELSE /\ IdsOf(Writes[i + 1].articles) = IdsOf(Writes[i].articles)
                 /\ Writes[i + 1].step = "own" => Len(Writes[i].articles) <= 5
    /\ \A i \in 1..Len(Writes) :
         /\ \A k \in 1..Len(Writes[i].articles) : Preserved(Writes[i].articles[k])
         /\ Writes[i].step = "others" =>
              \A k \in 1..Len(Merged) :
                Writes[i].articles[k] =
                  IF Merged[k].id = wiz.saved[1].id THEN Merged[k]
                  ELSE [Merged[k] EXCEPT
                          !.imageSpecs = [n \in 1..Len(@) |-> IF IsDataUrl(@[n]) THEN "" ELSE @[n]]]
    /\ IF wiz.outcome.alert = ALERT_CRITICAL
       THEN /\ Writes[Len(Writes)].step = "own"
            /\ ~trySaveArticles(Writes[Len(Writes)].articles, wiz.capacity)
       ELSE /\ trySaveArticles(Writes[Len(Writes)].articles, wiz.capacity)
            /\ wiz.stored = Writes[Len(Writes)].articles

\* A new article with an embedded and a hosted image went through every step:
\* the plain write, the others' images, an article removed, and was written
\* with its own images stripped.
C25_Witness ==
  /\ wiz.saved # <<>>
  /\ wiz.saved[1].imageSpecs = <<EMBEDDED_URL, HOSTED_URL>>
  /\ wiz.outcome.alert = ALERT_IMAGES
  /\ \E i \in 1..Len(Writes) : Writes[i].step = "oldest"
  /\ Writes[Len(Writes)].step = "own"
  /\ wiz.stored = Writes[Len(Writes)].articles

\* C28: when saveArticle(a) returns without the critical error the storage
\* holds exactly one article of a's id, with a's text; the removal of the
\* oldest articles never removes a and never leaves fewer than 5 articles;
\* when the critical error is reported the storage holds what it held.
C28_SavedArticleKept ==
  wiz.saved # <<>> =>
    LET a == wiz.saved[1] IN
    /\ wiz.outcome.alert # ALERT_CRITICAL =>
         /\ Cardinality({i \in 1..Len(wiz.stored) : wiz.stored[i].id = a.id}) = 1
         /\ \A i \in 1..Len(wiz.stored) : wiz.stored[i].id = a.id => wiz.stored[i].text = a.text
    /\ \A i \in 1..Len(Writes) :
         Writes[i].step = "oldest" =>
           /\ \E k \in 1..Len(Writes[i].articles) : Writes[i].articles[k].id = a.id
           /\ Len(Writes[i].articles) >= 5
    /\ wiz.outcome.alert = ALERT_CRITICAL => wiz.stored = wiz.before

\* The oldest of six stored articles was edited and saved: the write failed
\* on the quota, the article went with the oldest ones, and saveArticle
\* returned without an alert.
C28_Witness ==
  /\ wiz.saved # <<>>
  /\ Len(wiz.before) = 6
  /\ wiz.saved[1].id = wiz.before[6].id
  /\ wiz.outcome.alert = ""
  /\ Writes[Len(Writes)].step = "oldest"
  /\ wiz.stored = Writes[Len(Writes)].articles
  /\ FindIndex(wiz.stored, wiz.saved[1].id) = 0

\* --------------------------- image calls that overlap

\* The editor starts an image call, a generation or an edit, on either of two
\* tasks, whatever the other one is doing.
StartImageCall(p) ==
  /\ Len(procs[p].stack) = 0
  /\ \E fr \in {ImageFrame(MODEL_IMAGE_FLASH), ImageFrame(MODEL_IMAGE_PRO), EditFrame} :
       Commit(p, Called(p, fr), inflight)

InitImages ==
  /\ GLOBAL_IMAGE_QUOTA_EXHAUSTED = FALSE
  /\ apiKey = [browserKey |-> TRUE, envKey |-> FALSE]
  /\ procs = [p \in {"image", "other"} |-> Idle]
  /\ inflight = {}
  /\ wiz = NoWizard

NextImages ==
  \/ \E p \in DOMAIN procs : StartImageCall(p)
  \/ \E p \in DOMAIN procs : Respond(p)
  \/ \E p \in DOMAIN procs : Fail(p)
  \/ \E p \in DOMAIN procs : Timer(p)

SpecImages == InitImages /\ [][NextImages]_vars

\* The requests issued by this step that were made as image requests.
ImageRequestsIssued == {m \in inflight' \ inflight : m.req.purpose \in {"image", "edit"}}

\* C26: whatever the interleaving of the image calls, a step taken with the
\* circuit-breaker flag set issues no image request.
C26_NoImageRequestAfterFlag ==
  [][GLOBAL_IMAGE_QUOTA_EXHAUSTED => ImageRequestsIssued = {}]_vars

\* The flag is set by the quota failure of one image call while the other one
\* sleeps before the retry of its request.
C26_Witness ==
  /\ GLOBAL_IMAGE_QUOTA_EXHAUSTED
  /\ \E p, q \in ImageCalls :
       /\ p # q
       /\ Ended(p)
       /\ Outer(p).v.got.ret \in {Thrown(e) : e \in QuotaClassErrors}
       /\ Waiting(q, "timer")
       /\ Outer(q).v.got.ret \in {Thrown(Err(503, 503, MSG_503))}

\* The generateImageFromPrompt calls that began with the flag clear, the
\* requests such a call has sent to the model it was asked for, and those
\* sent to another model.
GenerationCalls ==
  {p \in DOMAIN procs : Outer(p).fn = "generateImageFromPrompt" /\ ~Outer(p).v.began}
SentToOwnModel(p) == Outer(p).v.sent[Outer(p).v.model]
SentElsewhere(p) == {m \in AllModels : m # Outer(p).v.model /\ Outer(p).v.sent[m] > 0}

MaxClicks == 2

InitOverlap ==
  /\ GLOBAL_IMAGE_QUOTA_EXHAUSTED = FALSE
  /\ apiKey = [browserKey |-> TRUE, envKey |-> FALSE]
  /\ procs = [p \in {"image", "other"} |-> Idle]
  /\ inflight = {}
  /\ \E article \in EditorArticles :
       wiz = [on |-> TRUE, currentStep |-> 3, isGenerating |-> FALSE, error |-> NO_ERROR,
              article |-> article, stored |-> <<article>>, reviewTimer |-> FALSE,
              settings |-> [wordpress |-> [endpoint |-> TRUE, username |-> TRUE,
                                           applicationPassword |-> TRUE]],
              searches |-> 0, clicks |-> 0]

\* The user clicks the button of handler fn, which runs as task p with the
\* article of the render the click was made in.
Click(p, fn) ==
  /\ Len(procs[p].stack) = 0
  /\ wiz.clicks < MaxClicks
  /\ Commit(p, [Called(p, HandlerFrame(fn, wiz.article)) EXCEPT !.wiz.clicks = @ + 1], inflight)

NextOverlap ==
  \/ Click("image", "handleGenerateImage")
  \/ Click("image", "handleEditImageSubmit")
  \/ Click("other", "handleSearchVideo")
  \/ Click("other", "handlePublishToWordPress")
  \/ \E p \in DOMAIN procs : Respond(p)
  \/ \E p \in DOMAIN procs : FailEditor(p)
  \/ \E p \in DOMAIN procs : Timer(p)

SpecOverlap == InitOverlap /\ [][NextOverlap]_vars

\* The handler run as task p returns in this step; the fields of the article
\* a handler writes.
Completes(p) == Len(procs[p].stack) > 0 /\ Len(procs'[p].stack) = 0
FieldsOf(fn) ==
  CASE fn \in {"handleGenerateImage", "handleEditImageSubmit"} -> {"heroUrl"}
    [] fn = "handleSearchVideo" -> {"videoData", "htmlContent"}
    [] fn = "handlePublishToWordPress" -> {"status"}

\* C27: when handlers of the review step overlap on the article, the
\* completion of one changes, in the article in memory and in the stored one,
\* only the fields it writes: the update the other one made meanwhile stays.
C27_NoLostUpdate ==
  [][\A p \in DOMAIN procs :
       Completes(p) =>
         \A f \in DOMAIN wiz.article \ FieldsOf(procs[p].stack[1].fn) :
           /\ wiz'.article[f] = wiz.article[f]
           /\ wiz'.stored[1][f] = wiz.stored[1][f]]_vars

\* An edit of the image and a video search ran at once and both succeeded,
\* the search last: the article has the video and not the edited image.
C27_Witness ==
  /\ Ended("image") /\ Ended("other")
  /\ procs["image"].fin.fn = "handleEditImageSubmit"
  /\ procs["image"].fin.v.threw = NoRet
  /\ procs["other"].fin.fn = "handleSearchVideo"
  /\ procs["other"].fin.v.found # NoRet
  /\ wiz.article.videoData = procs["other"].fin.v.found.v
  /\ wiz.article.heroUrl # "data:image/jpeg;base64,editedData"
  /\ wiz.stored[1].heroUrl # "data:image/jpeg;base64,editedData"

\* --------------------------- handleGenerate runs to their end

\* Every request in flight is answered or fails, every timer fires: the API
\* client settles each promise, and the event loop runs each callback due.
\* Settled is a step of Respond or Fail, enabled when a request is in flight;
\* Fired is a step of Timer, enabled when a task sleeps.  Weak fairness of the
\* two is written out with these conditions in the place of ENABLED.
Settled == \E m \in inflight : procs'[m.proc] # procs[m.proc]
Sleeping == \E p \in DOMAIN procs : Waiting(p, "timer")
Fired == \E p \in DOMAIN procs : Waiting(p, "timer") /\ procs'[p] # procs[p]

\* The wizard on step 1 with a new article, the key set, the flag clear.
InitLive ==
  /\ GLOBAL_IMAGE_QUOTA_EXHAUSTED = FALSE
  /\ apiKey = [browserKey |-> TRUE, envKey |-> FALSE]
  /\ procs = [p \in {"wizard"} |-> Idle]
  /\ inflight = {}
  /\ wiz = Wizard(<<>>)

SpecLive ==
  /\ InitLive
  /\ [][Next]_vars
  /\ []<>(inflight = {}) \/ []<><<Settled>>_vars
  /\ []<>(~Sleeping) \/ []<><<Fired>>_vars
  /\ WF_vars(ShowReview)

\* The requests a call that owns a client has sent.
RECURSIVE SumOver(_, _)
SumOver(sent, models) ==
  IF models = {} THEN 0
  ELSE LET m == CHOOSE x \in models : TRUE IN sent[m] + SumOver(sent, models \ {m})

\* What holds of the handleGenerate run of the wizard at every moment: a run
\* with the topic or the keyword empty has ended on step 1 without a request;
\* no call of a run sends more than the requests of two tiers; a run that has
\* ended has isGenerating reset, and either completed the article, the review
\* step shown or its timer set, or is back on step 1 with an error message.
RunBounded ==
  \A p \in GenerateRuns :
    LET v == Outer(p).v IN
    /\ ~v.filled =>
         /\ Ended(p)
         /\ v.outcome = "rejected"
         /\ v.stages = <<>>
         /\ \A m \in inflight : m.proc # p
         /\ wiz.currentStep = 1
         /\ ~wiz.isGenerating
         /\ wiz.error # NO_ERROR
    /\ \A i \in 1..Len(procs[p].stack) :
         procs[p].stack[i].fn \in ClientFns =>
           SumOver(procs[p].stack[i].v.sent, AllModels) <= 2 * TierAttempts
    /\ Len(v.stages) <= Len(StageOrder)
    /\ Ended(p) =>
         /\ ~wiz.isGenerating
         /\ \/ /\ v.outcome = "completed"
               /\ wiz.article.status = "completed"
               /\ wiz.reviewTimer \/ wiz.currentStep = 3
            \/ /\ v.outcome \in {"aborted", "rejected"}
               /\ wiz.currentStep = 1
               /\ wiz.error # NO_ERROR

\* C29: with every request answered or failed in the end, every handleGenerate
\* run ends, after a bounded number of requests, with isGenerating reset:
\* on the review step with the completed article, or on step 1 with an error
\* message; with the topic or the keyword empty it sends no request and stays
\* on step 1.
C29_RunTerminates ==
  /\ []RunBounded
  /\ (Len(procs["wizard"].stack) > 0) ~> (Ended("wizard") /\ ~wiz.isGenerating)
  /\ (Ended("wizard") /\ Outer("wizard").v.outcome = "completed") ~> (wiz.currentStep = 3)

\* A run went through its stages, a request of it having failed on the way,
\* and the review step is shown with the completed article.
C29_Witness ==
  \E p \in GenerateRuns :
    /\ Ended(p)
    /\ Outer(p).v.outcome = "completed"
    /\ Outer(p).v.heroUrl = ""
    /\ wiz.currentStep = 3
    /\ ~wiz.isGenerating
    /\ wiz.article.status = "completed"

====
